---- MODULE Spec2Model ----
(***************************************************************************)
(* Model of the sbomlicense enrichment engine: the worker pool of          *)
(* internal/enricher/worker.go, the cache-through lookup of                *)
(* internal/provider/provider.go and the in-memory cache of                *)
(* internal/cache/memory.go, over SPDX packages (internal/enricher/spdx.go)*)
(***************************************************************************)
EXTENDS Integers, Sequences, FiniteSets, TLC

(* ------------------------------ bounds --------------------------------- *)
MaxItems == 2      \* longest item sequence of a document
MaxPar == 2        \* largest requested parallelism
MaxTime == 3       \* the clock runs over 1..MaxTime

(* ------------------------- values of the program ----------------------- *)
spdxLicenseNone == "NONE"
spdxLicenseNoAssertion == "NOASSERTION"

Nil == "nil"                         \* Go's nil error / nil interface
ErrCacheMiss == "ErrCacheMiss"
ErrCacheClosed == "ErrCacheClosed"
ErrProvider == "ErrProvider"         \* any error returned by Provider.Get
ErrNoPurl == "ErrNoPurl"

ZeroTime == 0                        \* time.Time{}: "no expiration"
Absent == [value |-> "", expiration |-> -1]   \* key not in the map

Purls == {"p1", "p2"}
ProviderLicenses == {"MIT"}
CachedLicenses == {"ISC"}
\* what Provider.Get can return: a license, the empty string, or an error
ProviderOutcomes ==
    {[lic |-> l, err |-> Nil] : l \in ProviderLicenses \cup {""}}
        \cup {[lic |-> "", err |-> ErrProvider]}

Workers == 1..(MaxPar + 1)
TTLChoices == {0, 1}                 \* never expires / expires one tick after the write
ParallelismChoices == 0..MaxPar      \* Options.Parallelism; 0 exercises the clamp

(* ------------------------------ SPDX items ----------------------------- *)
PurlRef(p) == [referenceType |-> "purl", referenceLocator |-> p]
OtherRef == [referenceType |-> "cpe23Type", referenceLocator |-> "cpe"]

Pkg(concluded, declared, refs) ==
    [licenseConcluded |-> concluded, licenseDeclared |-> declared, externalRefs |-> refs]

\* the packages documents are made of: unlicensed ones without a purl reference,
\* with one, and with one behind another reference; licensed ones by either field
Packages ==
    {Pkg("", spdxLicenseNoAssertion, <<OtherRef>>),
     Pkg("", spdxLicenseNoAssertion, <<PurlRef("p1")>>),
     Pkg(spdxLicenseNone, "", <<OtherRef, PurlRef("p2")>>),
     Pkg("Apache-2.0", "", <<PurlRef("p1")>>),
     Pkg(spdxLicenseNone, "GPL-2.0", <<PurlRef("p1")>>)}

\* GetSPDXPackagePurl: the locator of the first external reference of type purl
RECURSIVE FirstPurl(_, _)
FirstPurl(refs, i) ==
    IF i > Len(refs) THEN [purl |-> "", err |-> ErrNoPurl]
    ELSE IF refs[i].referenceType = "purl"
         THEN [purl |-> refs[i].referenceLocator, err |-> Nil]
         ELSE FirstPurl(refs, i + 1)

GetSPDXPackagePurlDefaulted(pkg) == [purl |-> "p1", err |-> Nil]
GetSPDXPackagePurl(pkg) == FirstPurl(pkg.externalRefs, 1)

GetPurl(p) == GetSPDXPackagePurl(p)

MeaningfulNonEmpty(f) == f # ""
Meaningful(f) == f # "" /\ f # spdxLicenseNone /\ f # spdxLicenseNoAssertion

HasLicenseNoDeclared(p) == Meaningful(p.licenseConcluded)
HasLicense(p) == Meaningful(p.licenseConcluded) \/ Meaningful(p.licenseDeclared)

SetLicenseBoth(p, license) ==
    [p EXCEPT !.licenseConcluded = license, !.licenseDeclared = license]
SetLicense(p, license) ==
    [p EXCEPT !.licenseConcluded = license,
              !.licenseDeclared =
                  IF p.licenseDeclared = "" \/ p.licenseDeclared = spdxLicenseNone
                        \/ p.licenseDeclared = spdxLicenseNoAssertion
                  THEN license ELSE @]

(* --------------------------- CycloneDX items --------------------------- *)
\* LicenseChoice.License == nil
NilLicense == [nil |-> TRUE, id |-> "", name |-> "", expression |-> ""]
LicenseChoice(expression, license) == [expression |-> expression, license |-> license]

Comp(purl, licenses) == [purl |-> purl, licenses |-> licenses]

\* the components documents are made of: one without licenses, one whose only
\* license choice names a license by id
Components ==
    {Comp("p1", <<>>),
     Comp("p2", <<LicenseChoice("", [nil |-> FALSE, id |-> "ISC", name |-> "",
                                     expression |-> ""])>>)}

GetCycloneDXComponentPurl(component) == component.purl

ComponentGetPurlRequired(c) ==
    [purl |-> GetCycloneDXComponentPurl(c),
     err |-> IF GetCycloneDXComponentPurl(c) = "" THEN ErrNoPurl ELSE Nil]
ComponentGetPurl(c) == [purl |-> GetCycloneDXComponentPurl(c), err |-> Nil]

HasComponentLicense(component) ==
    \E n \in 1..Len(component.licenses) :
        LET choice == component.licenses[n] IN
          \/ choice.expression # ""
          \/ /\ ~choice.license.nil
             /\ \/ choice.license.id # ""
                \/ choice.license.name # ""
                \/ choice.license.expression # ""

ComponentSetLicenseReplace(c, license) ==
    [c EXCEPT !.licenses = <<LicenseChoice(license, NilLicense)>>]
ComponentSetLicense(c, license) ==
    [c EXCEPT !.licenses = Append(@, LicenseChoice(license, NilLicense))]

(* ------------------- enrichableItem: either item type ------------------ *)
IsComponent(x) == "purl" \in DOMAIN x
ItemGetPurl(x) == IF IsComponent(x) THEN ComponentGetPurl(x) ELSE GetPurl(x)
ItemHasLicense(x) == IF IsComponent(x) THEN HasComponentLicense(x) ELSE HasLicense(x)
ItemSetLicenseDropped(x, license) == x
ItemSetLicense(x, license) ==
    IF IsComponent(x) THEN ComponentSetLicense(x, license) ELSE SetLicense(x, license)

(* ------------------- Client.Get: the lookup service -------------------- *)
ErrLicenseNotFound == "license not found"
ErrInvalidResponse == "invalid API response"
ErrHTTPRequest == "failed to make HTTP request"
ErrRateLimited == "rate limited by API"
ErrUnavailable == "API service unavailable"
ErrAPI == "API error"

\* the normalized_licenses lists a result can carry, and the answers of the
\* service: no answer (status 0), a status other than 200, or 200 with a body
\* that decodes into an array of results or does not decode
LicenseLists == {<<>>, <<"MIT">>, <<"ISC", "MIT">>, <<"">>}
MaxResults == 2
Statuses == {0, 200, 404, 429, 500, 503}
Responses ==
    {[status |-> st, decodable |-> d, results |-> r] :
        st \in Statuses, d \in BOOLEAN,
        r \in UNION {[1..n -> LicenseLists] : n \in 0..MaxResults}}

\* the error for an answer that is missing or has a status other than 200
StatusError(resp) ==
    IF resp.status = 0 THEN ErrHTTPRequest
    ELSE IF resp.status = 404 THEN ErrLicenseNotFound
    ELSE IF resp.status = 429 THEN ErrRateLimited
    ELSE IF resp.status \in {502, 503, 504} THEN ErrUnavailable
    ELSE ErrAPI

\* Client.Get, as (license, error), from the answer to its request
ClientGetAnyResult(resp) ==
    LET licensed == {n \in DOMAIN resp.results : Len(resp.results[n]) > 0} IN
      IF resp.status # 200 THEN [lic |-> "", err |-> StatusError(resp)]
      ELSE IF ~resp.decodable THEN [lic |-> "", err |-> ErrInvalidResponse]
      ELSE IF licensed = {} THEN [lic |-> "", err |-> ErrLicenseNotFound]
      ELSE [lic |-> resp.results[CHOOSE n \in licensed : \A m \in licensed : n <= m][1],
            err |-> Nil]
ClientGet(resp) ==
    IF resp.status # 200 THEN [lic |-> "", err |-> StatusError(resp)]
    ELSE IF ~resp.decodable THEN [lic |-> "", err |-> ErrInvalidResponse]
    ELSE IF Len(resp.results) = 0 \/ Len(resp.results[1]) = 0
         THEN [lic |-> "", err |-> ErrLicenseNotFound]
    ELSE [lic |-> resp.results[1][1], err |-> Nil]

(* ------------------------------ MemoryCache ---------------------------- *)
\* cacheEntry.isExpired
isExpiredAtDeadline(e, t) == e.expiration # ZeroTime /\ t >= e.expiration
isExpired(e, t) == e.expiration # ZeroTime /\ t > e.expiration

\* MemoryCache.Get, as (value, error)
MemoryCacheGet(store, closed, key, t) ==
    IF closed THEN [value |-> "", err |-> ErrCacheClosed]
    ELSE IF store[key] = Absent \/ isExpired(store[key], t)
         THEN [value |-> "", err |-> ErrCacheMiss]
         ELSE [value |-> store[key].value, err |-> Nil]

\* MemoryCache.SetWithTTL: the entry written
NewEntryNoExpiry(value, ttl, t) == [value |-> value, expiration |-> ZeroTime]
NewEntry(value, ttl, t) ==
    [value |-> value, expiration |-> IF ttl > 0 THEN t + ttl ELSE ZeroTime]

(* ---------------------------- JSON documents --------------------------- *)
\* a member of a JSON object that the code reads as a string: its text, or
\* one of two markers
AbsentField == "@absent"        \* the key is missing
NumberField == "@number"        \* the key holds a value that is not a string
IsString(f) == f # AbsentField /\ f # NumberField

\* an array member: missing, or the items it lists
NoItems == [present |-> FALSE, items |-> <<>>]
ItemArray(xs) == [present |-> TRUE, items |-> xs]

\* one JSON object: the members the code reads, and whether it has a member
\* neither Document nor BOM declares
Obj(spdxVersion, spdxID, bomFormat, specVersion, extra, packages, components) ==
    [spdxVersion |-> spdxVersion, SPDXID |-> spdxID, bomFormat |-> bomFormat,
     specVersion |-> specVersion, extra |-> extra, packages |-> packages,
     components |-> components]
EmptyObj == Obj(AbsentField, AbsentField, AbsentField, AbsentField, FALSE, NoItems, NoItems)

\* the input bytes: a top-level object, and its "sbom" member: missing
\* ("@absent"), an object (inner), the literal null or a string
JSONDoc(sbom, top, inner) == [sbom |-> sbom, top |-> top, inner |-> inner]

\* strings.HasPrefix(format, prefix) over the format tags that occur
SPDXTags == {"SPDX-2.3", "SPDX-2.2"}
CycloneDXTags == {"CycloneDX-1.4", "CycloneDX-1.5", "CycloneDX-"}
HasPrefix(format, prefix) ==
    IF prefix = "SPDX" THEN format \in SPDXTags
    ELSE IF prefix = "CycloneDX" THEN format \in CycloneDXTags
    ELSE FALSE

ErrUnknownFormat == "unknown SBOM format"
ErrUnsupportedFormat == "unsupported SBOM format"
ErrParse == "failed to parse SBOM file"

\* DetectFormat, as (format, error)
DetectFormatCycloneDXFirst(data) ==
    LET raw == IF data.sbom = "@object" THEN data.inner ELSE data.top IN
      IF raw.bomFormat = "CycloneDX"
      THEN IF IsString(raw.specVersion)
           THEN [format |-> "CycloneDX-" \o raw.specVersion, err |-> Nil]
           ELSE [format |-> "CycloneDX-1.4", err |-> Nil]
      ELSE IF IsString(raw.spdxVersion) THEN [format |-> raw.spdxVersion, err |-> Nil]
      ELSE IF IsString(raw.SPDXID) /\ raw.SPDXID # ""
           THEN [format |-> "SPDX-2.3", err |-> Nil]
      ELSE [format |-> "", err |-> ErrUnknownFormat]
DetectFormat(data) ==
    LET raw == IF data.sbom = "@object" THEN data.inner ELSE data.top IN
      IF IsString(raw.spdxVersion) THEN [format |-> raw.spdxVersion, err |-> Nil]
      ELSE IF IsString(raw.SPDXID) /\ raw.SPDXID # ""
           THEN [format |-> "SPDX-2.3", err |-> Nil]
      ELSE IF raw.bomFormat = "CycloneDX"
           THEN IF IsString(raw.specVersion)
                THEN [format |-> "CycloneDX-" \o raw.specVersion, err |-> Nil]
                ELSE [format |-> "CycloneDX-1.4", err |-> Nil]
      ELSE [format |-> "", err |-> ErrUnknownFormat]

\* UnwrapGitHubSBOM: the value of the "sbom" member whatever it is, else the data
UnwrapKeepsEnvelope(data) == [kind |-> "@object", obj |-> data.top]
UnwrapGitHubSBOM(data) ==
    IF data.sbom = "@absent" THEN [kind |-> "@object", obj |-> data.top]
    ELSE IF data.sbom = "@object" THEN [kind |-> "@object", obj |-> data.inner]
    ELSE [kind |-> data.sbom, obj |-> EmptyObj]

\* a string member as json.Unmarshal leaves the struct field
Field(f) == IF f = AbsentField THEN "" ELSE f

\* json.Unmarshal(unwrapped, &doc) for Document: null sets nothing, a string is
\* a type error, an object sets the members it has
UnmarshalDocument(v) ==
    IF v.kind = "@string" \/ v.obj.spdxVersion = NumberField \/ v.obj.SPDXID = NumberField
    THEN [err |-> ErrParse, doc |-> [SPDXVersion |-> "", SPDXID |-> "", Packages |-> <<>>]]
    ELSE [err |-> Nil,
          doc |-> [SPDXVersion |-> Field(v.obj.spdxVersion), SPDXID |-> Field(v.obj.SPDXID),
                   Packages |-> v.obj.packages.items]]

ParseSBOMFile(sbom) == UnmarshalDocument(UnwrapGitHubSBOM(sbom))

\* ParseCycloneDXFile: json.Unmarshal(data, &bom) on the top-level object
ParseCycloneDXFile(data) ==
    IF data.top.bomFormat = NumberField \/ data.top.specVersion = NumberField
    THEN [err |-> ErrParse, doc |-> [BOMFormat |-> "", SpecVersion |-> "", Components |-> <<>>]]
    ELSE [err |-> Nil,
          doc |-> [BOMFormat |-> Field(data.top.bomFormat),
                   SpecVersion |-> Field(data.top.specVersion),
                   Components |-> data.top.components.items]]

\* json.Marshal(d) for Document: its three members, always written
MarshalDocumentWrapped(doc, pkgs) ==
    JSONDoc("@object", EmptyObj,
            Obj(doc.SPDXVersion, doc.SPDXID, AbsentField, AbsentField, FALSE,
                ItemArray(pkgs), NoItems))
MarshalDocument(doc, pkgs) ==
    JSONDoc("@absent",
            Obj(doc.SPDXVersion, doc.SPDXID, AbsentField, AbsentField, FALSE,
                ItemArray(pkgs), NoItems),
            EmptyObj)

\* json.Marshal(b) for BOM: components is omitted when empty
MarshalBOM(bom, comps) ==
    JSONDoc("@absent",
            Obj(AbsentField, AbsentField, bom.BOMFormat, bom.SpecVersion, FALSE, NoItems,
                IF Len(comps) = 0 THEN NoItems ELSE ItemArray(comps)),
            EmptyObj)

\* a plain SPDX 2.3 document with the given packages
PlainSPDX(pkgs) ==
    JSONDoc("@absent",
            Obj("SPDX-2.3", "SPDXRef-DOCUMENT", AbsentField, AbsentField, TRUE,
                ItemArray(pkgs), NoItems),
            EmptyObj)

(* ------------------------------- state --------------------------------- *)
VARIABLES
    items,            \* the parsed document's packages (doc.Packages)
    entry,            \* the packages as they were when Enrich was called
    optsParallelism,  \* Options.Parallelism
    parallelism,      \* the normalised worker count of enrichDocument
    cacheCfg,         \* "nil" (no cache) or "memory" (MemoryCache)
    cacheStore,       \* MemoryCache.cache: key -> entry or Absent
    cacheClosed,      \* MemoryCache.closed
    cacheTTL,         \* the configured TTL
    now,              \* time.Now()
    pc,               \* position of the goroutine running Enrich
    spawned,          \* workers started so far
    qi,               \* index of the next item the producer looks at
    jobs,             \* the buffered channel of jobs
    jobsClosed,       \* close(jobs) has happened
    wg,               \* the WaitGroup counter
    wpc,              \* position of each worker goroutine
    wjob,             \* the job a worker holds
    wlic,             \* provider.Get's local (license, err) in a worker
    ret,              \* what Enrich returned
    trace,            \* per item: what the run did for it (observation only)
    db,               \* the bbolt file's bucket: key -> stored bytes
    op,               \* the cache operation just performed and its result
    written,          \* per key: the last SetWithTTL that succeeded and was
                      \* not followed by a Delete (observation only)
    docIn,            \* Options.SBOM: the input bytes, as the JSON they hold
    prov,             \* the provider: per purl, the results a call can have
    firstRun,         \* what an earlier Enrich on the same input returned
    request,          \* the body of the POST /enrich request, by its shape
    response,         \* the lookup service's answer to Client.Get's request
    ctx,              \* the context of the run: cancelled or not, and the
                      \* items and trace at the cancellation (observation)
    mu,               \* the cache's sync.RWMutex: who holds it
    clients           \* goroutines calling the cache API: operation, position,
                      \* result

vars == <<items, entry, optsParallelism, parallelism, cacheCfg, cacheStore,
          cacheClosed, cacheTTL, now, pc, spawned, qi, jobs, jobsClosed, wg,
          wpc, wjob, wlic, ret, trace, db, op, written, docIn, prov, firstRun,
          request, response, ctx, mu, clients>>

cacheVars == <<cacheCfg, cacheStore, cacheClosed, cacheTTL>>
mainVars == <<pc, spawned, qi, ret, parallelism>>
cfgVars == <<entry, optsParallelism, db, op, written, docIn, prov, firstRun, request,
             response, ctx, mu, clients>>

\* keys handed to the cache API; the empty key is one bbolt refuses to store
CacheKeys == Purls \cup {""}
\* bbolt's Bucket.Put error for a key of length 0
ErrKeyRequired == "key required"
\* b.Get(key) == nil: no record under the key
NoData == [text |-> "nil", value |-> "", expiration |-> ZeroTime]
NoOp == [name |-> "none", key |-> "", value |-> "", err |-> Nil]
NoWrite == [value |-> "", ttl |-> 0, at |-> 0, reopened |-> FALSE]
\* a provider whose result for a purl may differ from call to call
AnyProvider == [k \in CacheKeys |-> ProviderOutcomes]

None == [lic |-> "none", err |-> "none"]
NoJob == [item |-> 0, purl |-> ""]
NoRet == [kind |-> "none", doc |-> <<>>, err |-> "none"]
NoFirst == [ret |-> NoRet, parallelism |-> 0]
\* no request was sent to the lookup service
NoResponse == [status |-> 0, decodable |-> FALSE, results |-> <<>>]
\* context.Background(): never cancelled
Background == [done |-> FALSE, items |-> <<>>, trace |-> <<>>]
\* the zero sync.RWMutex
Unlocked == [readers |-> {}, writer |-> 0]
\* nobody calls the cache API concurrently
NoClients == <<>>

Trace0 ==
    [dequeued |-> 0, finished |-> 0, purlErrs |-> 0, cacheReads |-> 0,
     readRes |-> None, provCalls |-> 0, provRes |-> None, writes |-> <<>>,
     setCalls |-> 0, lookupRet |-> None, logged |-> 0,
     sawSuccess |-> FALSE, readExpired |-> FALSE, writeErr |-> Nil]

Documents == UNION {[1..n -> Packages] : n \in 0..MaxItems}

InitialEntries ==
    {Absent} \cup {[value |-> v, expiration |-> e] : v \in CachedLicenses, e \in {ZeroTime, 1}}

Init ==
    /\ items \in Documents
    /\ entry = items
    /\ optsParallelism \in ParallelismChoices
    /\ parallelism = 0
    /\ cacheCfg \in {"nil", "memory"}
    /\ \E e \in InitialEntries : cacheStore = [p \in Purls |-> IF p = "p1" THEN e ELSE Absent]
    /\ cacheCfg = "nil" => cacheStore = [p \in Purls |-> Absent]
    /\ cacheClosed = FALSE
    /\ cacheTTL \in TTLChoices
    /\ cacheCfg = "nil" => cacheTTL = 0
    /\ now = 1
    /\ pc = "start"
    /\ spawned = 0
    /\ qi = 1
    /\ jobs = <<>>
    /\ jobsClosed = FALSE
    /\ wg = 0
    /\ wpc = [w \in Workers |-> "idle"]
    /\ wjob = [w \in Workers |-> NoJob]
    /\ wlic = [w \in Workers |-> None]
    /\ ret = NoRet
    /\ trace = [i \in 1..Len(items) |-> Trace0]
    /\ db = [k \in CacheKeys |-> NoData]
    /\ op = NoOp
    /\ written = [k \in CacheKeys |-> NoWrite]
    /\ docIn = PlainSPDX(items)
    /\ prov = AnyProvider
    /\ firstRun = NoFirst
    /\ response = NoResponse
    /\ ctx = Background
    /\ mu = Unlocked
    /\ clients = NoClients
    /\ request = "sbom"

(* --------------------------- enrichDocument ---------------------------- *)
\* parallelism <= 0 is clamped to 1
NormaliseNever(p) == p
Normalise(p) == IF p <= 0 THEN 1 ELSE p

\* the number of goroutines the spawn loop starts
NumWorkersOffByOne(p) == p + 1
NumWorkers(p) == p

\* `if len(items) == 0 { return opts.SBOM, nil }`
NoFastPath(n) == FALSE
EmptyFastPath(n) == n = 0

\* enrichDocument up to the call of processItemsParallel
EnrichStart ==
    /\ pc = "start"
    /\ IF EmptyFastPath(Len(items))
       THEN /\ ret' = [kind |-> "opts.SBOM", doc |-> <<>>, err |-> Nil]
            /\ pc' = "done"
            /\ UNCHANGED parallelism
       ELSE /\ parallelism' = Normalise(optsParallelism)
            /\ pc' = "spawn"
            /\ UNCHANGED ret
    /\ UNCHANGED <<items, cfgVars, cacheVars, now, spawned, qi, jobs, jobsClosed,
                   wg, wpc, wjob, wlic, trace>>

\* one iteration of the loop that starts the worker goroutines
SpawnWorker ==
    /\ pc = "spawn"
    /\ spawned < NumWorkers(parallelism)
    /\ spawned' = spawned + 1
    /\ wg' = wg + 1
    /\ wpc' = [wpc EXCEPT ![spawned + 1] = "recv"]
    /\ pc' = IF spawned + 1 = NumWorkers(parallelism) THEN "queue" ELSE "spawn"
    /\ UNCHANGED <<items, cfgVars, cacheVars, now, qi, jobs, jobsClosed, wjob,
                   wlic, ret, parallelism, trace>>

EnqueueLost(q, j) == q
Enqueue(q, j) == Append(q, j)

\* one iteration of the loop that queues the items
QueueItem ==
    /\ pc = "queue"
    /\ qi <= Len(items)
    /\ LET r == ItemGetPurl(items[qi]) IN
         IF r.err # Nil
         THEN /\ trace' = [trace EXCEPT ![qi].purlErrs = @ + 1, ![qi].logged = @ + 1]
              /\ UNCHANGED jobs
         ELSE /\ Len(jobs) < Len(items)      \* a send blocks on a full buffer
              /\ jobs' = Enqueue(jobs, [item |-> qi, purl |-> r.purl])
              /\ UNCHANGED trace
    /\ qi' = qi + 1
    /\ UNCHANGED <<items, cfgVars, cacheVars, now, pc, spawned, jobsClosed, wg,
                   wpc, wjob, wlic, ret, parallelism>>

\* the channel's state after close(jobs)
LeftOpen == FALSE
Closed == TRUE

\* close(jobs)
CloseJobs ==
    /\ pc = "queue"
    /\ qi > Len(items)
    /\ jobsClosed' = Closed
    /\ pc' = "wait"
    /\ UNCHANGED <<items, cfgVars, cacheVars, now, spawned, qi, jobs, wg, wpc,
                   wjob, wlic, ret, parallelism, trace>>

WaitDoneEarly(n) == TRUE
WaitDone(n) == n = 0

\* what processItemsParallel returns: nil, whatever the workers logged
ReturnFirstError(tr) ==
    IF \E i \in DOMAIN tr : tr[i].logged > 0 THEN "ErrItem" ELSE Nil
ProcessItemsParallelResult(tr) == Nil

\* wg.Wait() returns, processItemsParallel returns, enrichDocument lines 61-73
WaitAndMarshal ==
    /\ pc = "wait"
    /\ WaitDone(wg)
    /\ ret' = IF ProcessItemsParallelResult(trace) # Nil
              THEN [kind |-> "none", doc |-> <<>>, err |-> ProcessItemsParallelResult(trace)]
              ELSE [kind |-> "marshalled", doc |-> items, err |-> Nil]
    /\ pc' = "done"
    /\ UNCHANGED <<items, cfgVars, cacheVars, now, spawned, qi, jobs, jobsClosed,
                   wg, wpc, wjob, wlic, parallelism, trace>>

(* ------------------- a worker of processItemsParallel ------------------ *)
DequeueKeep(q) == q
Dequeue(q) == Tail(q)

\* Workers blocked on the channel are indistinguishable (no job, no result), so
\* whichever of them the runtime wakes is taken to be the first.
FirstReceiver(w) == \A v \in Workers : wpc[v] = "recv" => w <= v

\* `for j := range jobs` receives a job; `if j.item.HasLicense() { continue }`;
\* provider.Get's `if opts.Cache != nil`.  These are local to the worker: the
\* item is held by it alone and the configuration does not change.
WorkerRecv(w) ==
    /\ wpc[w] = "recv"
    /\ FirstReceiver(w)
    /\ jobs # <<>>
    /\ jobs' = Dequeue(jobs)
    /\ LET j == Head(jobs) IN
         IF ItemHasLicense(items[j.item])
         THEN /\ trace' = [trace EXCEPT ![j.item].dequeued = @ + 1,
                                        ![j.item].finished = @ + 1]
              /\ UNCHANGED <<wpc, wjob>>
         ELSE /\ wjob' = [wjob EXCEPT ![w] = j]
              /\ wpc' = [wpc EXCEPT ![w] = IF cacheCfg = "nil" THEN "provGet" ELSE "get"]
              /\ trace' = [trace EXCEPT ![j.item].dequeued = @ + 1]
    /\ UNCHANGED <<items, cfgVars, cacheVars, now, mainVars, jobsClosed, wg, wlic>>

\* `for j := range jobs` ends on the closed, drained channel; wg.Done()
WorkerExit(w) ==
    /\ wpc[w] = "recv"
    /\ FirstReceiver(w)
    /\ jobs = <<>>
    /\ jobsClosed
    /\ wpc' = [wpc EXCEPT ![w] = "exited"]
    /\ wg' = wg - 1
    /\ UNCHANGED <<items, cfgVars, cacheVars, now, mainVars, jobs, jobsClosed,
                   wjob, wlic, trace>>

\* the item is done with: back to the head of the range loop
Finish(w, tr) ==
    /\ wpc' = [wpc EXCEPT ![w] = "recv"]
    /\ wjob' = [wjob EXCEPT ![w] = NoJob]
    /\ wlic' = [wlic EXCEPT ![w] = None]
    /\ trace' = [tr EXCEPT ![wjob[w].item].finished = @ + 1]

(* ----------------------------- provider.Get ---------------------------- *)
\* observation: a lookup for purl k has already returned a non-empty license
SucceededFor(k) ==
    \E i \in DOMAIN trace :
        /\ ItemGetPurl(entry[i]) = [purl |-> k, err |-> Nil]
        /\ trace[i].lookupRet.err = Nil
        /\ trace[i].lookupRet.lic # ""

\* a cache read that yields neither a value nor a miss ends the lookup
ReadFailsNever(r) == FALSE
ReadFails(r) == r.err # Nil /\ r.err # ErrCacheMiss

\* a cache read without error ends the lookup with the cached value
ReadHitsNever(r) == FALSE
ReadHits(r) == r.err = Nil

\* provider.Get lines 44-52: the cache read
GetCacheRead(w) ==
    /\ wpc[w] = "get"
    /\ LET i == wjob[w].item
           k == wjob[w].purl
           r == MemoryCacheGet(cacheStore, cacheClosed, k, now)
           seen == [trace EXCEPT
                      ![i].cacheReads = @ + 1,
                      ![i].readRes = [lic |-> r.value, err |-> r.err],
                      ![i].sawSuccess = SucceededFor(k),
                      ![i].readExpired = ~cacheClosed /\ cacheStore[k] # Absent
                                            /\ isExpired(cacheStore[k], now)] IN
         IF ReadFails(r)
         THEN /\ wlic' = [wlic EXCEPT ![w] = [lic |-> "", err |-> r.err]]
              /\ wpc' = [wpc EXCEPT ![w] = "ret"]
              /\ trace' = [seen EXCEPT ![i].lookupRet = [lic |-> "", err |-> r.err]]
         ELSE IF ReadHits(r)
         THEN /\ wlic' = [wlic EXCEPT ![w] = [lic |-> r.value, err |-> Nil]]
              /\ wpc' = [wpc EXCEPT ![w] = "ret"]
              /\ trace' = [seen EXCEPT ![i].lookupRet = [lic |-> r.value, err |-> Nil]]
         ELSE /\ wpc' = [wpc EXCEPT ![w] = "provGet"]
              /\ trace' = seen
              /\ UNCHANGED wlic
    /\ UNCHANGED <<items, cfgVars, cacheVars, now, mainVars, jobs, jobsClosed, wg, wjob>>

\* `if license != "" && opts.Cache != nil`
ShouldCacheAlways(license, cfg) == cfg # "nil"
ShouldCacheNever(license, cfg) == FALSE
ShouldCache(license, cfg) == license # "" /\ cfg # "nil"

\* what opts.Provider.Get(ctx, purl) can return: the request of a cancelled
\* context fails, otherwise the provider answers
ErrCanceled == "context canceled"
ProviderAnswersIgnoringCtx(purl) == prov[purl]
ProviderAnswers(purl) ==
    IF ctx.done THEN {[lic |-> "", err |-> ErrCanceled]} ELSE prov[purl]

\* provider.Get lines 55-60: the call of the provider
GetProviderCall(w) ==
    /\ wpc[w] = "provGet"
    /\ \E o \in ProviderAnswers(wjob[w].purl) :
         LET i == wjob[w].item IN
         IF o.err # Nil
         THEN /\ wlic' = [wlic EXCEPT ![w] = [lic |-> "", err |-> o.err]]
              /\ wpc' = [wpc EXCEPT ![w] = "ret"]
              /\ trace' = [trace EXCEPT ![i].provCalls = @ + 1, ![i].provRes = o,
                                        ![i].lookupRet = [lic |-> "", err |-> o.err]]
         ELSE IF ShouldCache(o.lic, cacheCfg)
         THEN /\ wlic' = [wlic EXCEPT ![w] = o]
              /\ wpc' = [wpc EXCEPT ![w] = "cacheSet"]
              /\ trace' = [trace EXCEPT ![i].provCalls = @ + 1, ![i].provRes = o]
         ELSE /\ wlic' = [wlic EXCEPT ![w] = o]
              /\ wpc' = [wpc EXCEPT ![w] = "ret"]
              /\ trace' = [trace EXCEPT ![i].provCalls = @ + 1, ![i].provRes = o,
                                        ![i].lookupRet = o]
    /\ UNCHANGED <<items, cfgVars, cacheVars, now, mainVars, jobs, jobsClosed, wg, wjob>>

\* `return "", fmt.Errorf("failed to set license in cache: %w", setErr)`
WriteFailureKeepsLicense(license, setErr) == [lic |-> license, err |-> Nil]
WriteFailureResult(license, setErr) == [lic |-> "", err |-> setErr]

\* provider.Get lines 61-67: the cache write, then the return
GetCacheWrite(w) ==
    /\ wpc[w] = "cacheSet"
    /\ LET i == wjob[w].item
           k == wjob[w].purl IN
         IF cacheClosed
         THEN /\ wlic' = [wlic EXCEPT
                            ![w] = WriteFailureResult(wlic[w].lic, ErrCacheClosed)]
              /\ trace' = [trace EXCEPT
                             ![i].writeErr = ErrCacheClosed,
                             ![i].lookupRet = WriteFailureResult(wlic[w].lic, ErrCacheClosed)]
              /\ UNCHANGED cacheStore
         ELSE /\ cacheStore' = [cacheStore EXCEPT ![k] = NewEntry(wlic[w].lic, cacheTTL, now)]
              /\ trace' = [trace EXCEPT
                             ![i].writes = Append(@, [key |-> k, value |-> wlic[w].lic,
                                                      ttl |-> cacheTTL, at |-> now,
                                                      entry |-> cacheStore'[k]]),
                             ![i].lookupRet = wlic[w]]
              /\ UNCHANGED wlic
    /\ wpc' = [wpc EXCEPT ![w] = "ret"]
    /\ UNCHANGED <<items, cfgVars, cacheCfg, cacheClosed, cacheTTL, now, mainVars,
                   jobs, jobsClosed, wg, wjob>>

\* worker lines 116-128: the lookup returned (lic, licErr)
WorkerApply(w) ==
    /\ wpc[w] = "ret"
    /\ LET i == wjob[w].item IN
         IF wlic[w].err # Nil
         THEN /\ Finish(w, [trace EXCEPT ![i].logged = @ + 1])
              /\ UNCHANGED items
         ELSE IF wlic[w].lic # ""
         THEN /\ items' = [items EXCEPT ![i] = ItemSetLicense(@, wlic[w].lic)]
              /\ Finish(w, [trace EXCEPT ![i].setCalls = @ + 1])
         ELSE /\ Finish(w, trace)
              /\ UNCHANGED items
    /\ UNCHANGED <<cfgVars, cacheVars, now, mainVars, jobs, jobsClosed, wg>>

(* ------------------------------ environment ---------------------------- *)
\* The run observes the cache's owner and the clock only through the cache
\* operations of provider.Get, so the environment moves right before one.
CacheOpPending == \E w \in Workers : wpc[w] \in {"get", "cacheSet"}

\* MemoryCache.Close, called by the owner of the cache
CacheClose ==
    /\ cacheCfg # "nil"
    /\ ~cacheClosed
    /\ CacheOpPending
    /\ cacheClosed' = TRUE
    /\ cacheStore' = [p \in DOMAIN cacheStore |-> Absent]
    /\ UNCHANGED <<items, cfgVars, cacheCfg, cacheTTL, now, mainVars, jobs,
                   jobsClosed, wg, wpc, wjob, wlic, trace>>

\* time passes
Tick ==
    /\ now < MaxTime
    /\ cacheCfg # "nil" /\ ~cacheClosed
    /\ CacheOpPending
    /\ cacheTTL > 0
          \/ \E p \in DOMAIN cacheStore :
                 cacheStore[p] # Absent /\ cacheStore[p].expiration # ZeroTime
    /\ now' = now + 1
    /\ UNCHANGED <<items, cfgVars, cacheVars, mainVars, jobs, jobsClosed, wg, wpc,
                   wjob, wlic, trace>>

Next ==
    \/ EnrichStart
    \/ SpawnWorker
    \/ QueueItem
    \/ CloseJobs
    \/ WaitAndMarshal
    \/ \E w \in Workers : WorkerRecv(w)
    \/ \E w \in Workers : WorkerExit(w)
    \/ \E w \in Workers : GetCacheRead(w)
    \/ \E w \in Workers : GetProviderCall(w)
    \/ \E w \in Workers : GetCacheWrite(w)
    \/ \E w \in Workers : WorkerApply(w)
    \/ CacheClose
    \/ Tick

Spec == Init /\ [][Next]_vars

\* the steps of the goroutine that runs Enrich, and of one worker goroutine
MainStep == EnrichStart \/ SpawnWorker \/ QueueItem \/ CloseJobs \/ WaitAndMarshal
WorkerStep(w) ==
    \/ WorkerRecv(w)
    \/ WorkerExit(w)
    \/ GetCacheRead(w)
    \/ GetProviderCall(w)
    \/ GetCacheWrite(w)
    \/ WorkerApply(w)

\* the Go scheduler runs every goroutine that can take a step, and every
\* cache or provider call a worker makes returns
SpecLive ==
    Init /\ [][Next]_vars /\ WF_vars(MainStep) /\ \A w \in Workers : WF_vars(WorkerStep(w))

(* ------------------ the Cache interface, both back-ends ----------------- *)
\* values and TTLs handed to SetWithTTL
CacheValues == ProviderLicenses \cup CachedLicenses
SetTTLs == {-1, 0, 1}

\* the text json.Marshal produces for a bboltEntry: an object with the two
\* members "value" and "expiration"
EntryJSON == "{value,expiration}"
\* records that predate the TTL layout: the license text stored as it is
LegacyTexts == {"MIT", "null"}
LegacyRecords == {[text |-> x, value |-> "", expiration |-> ZeroTime] : x \in LegacyTexts}

\* json.Marshal(bboltEntry{Value, Expiration})
JSONMarshalEntry(e) == [text |-> EntryJSON, value |-> e.value, expiration |-> e.expiration]

\* json.Unmarshal(data, &entry) on a zero bboltEntry: an object sets the
\* members it has, the literal null is accepted and sets nothing, any other
\* text is an error
JSONUnmarshalEntry(data) ==
    IF data.text = EntryJSON
    THEN [err |-> Nil, entry |-> [value |-> data.value, expiration |-> data.expiration]]
    ELSE IF data.text = "null"
         THEN [err |-> Nil, entry |-> [value |-> "", expiration |-> ZeroTime]]
         ELSE [err |-> "json", entry |-> [value |-> "", expiration |-> ZeroTime]]

\* `value = string(data)`: the record taken as a plain string
LegacyValueEmpty(data) == ""
LegacyValue(data) == data.text

\* c.closed as the operations of BboltCache test it
BboltNeverClosed(closed) == FALSE
BboltClosed(closed) == closed

\* BboltCache.Get, as (value, error)
BboltGet(file, closed, key, t) ==
    IF BboltClosed(closed) THEN [value |-> "", err |-> ErrCacheClosed]
    ELSE IF file[key] = NoData THEN [value |-> "", err |-> ErrCacheMiss]
    ELSE LET u == JSONUnmarshalEntry(file[key]) IN
           IF u.err # Nil THEN [value |-> LegacyValue(file[key]), err |-> Nil]
           ELSE IF isExpired(u.entry, t) THEN [value |-> "", err |-> ErrCacheMiss]
           ELSE [value |-> u.entry.value, err |-> Nil]

\* the entry BboltCache.SetWithTTL builds
NewBboltEntry(value, ttl, t) ==
    [value |-> value, expiration |-> IF ttl > 0 THEN t + ttl ELSE ZeroTime]

\* Bucket.Put refuses the empty key
BboltPut(key) == IF key = "" THEN ErrKeyRequired ELSE Nil

\* delete(c.cache, key) and Bucket.Delete(key)
MemoryDeleteAll(store, key) == [k \in DOMAIN store |-> Absent]
MemoryDelete(store, key) == [store EXCEPT ![key] = Absent]
BboltDelete(file, key) == [file EXCEPT ![key] = NoData]

\* what the file holds once the database is closed and opened again
FileLostOnClose(file) == [k \in DOMAIN file |-> NoData]
FileAfterClose(file) == file

\* Get on the configured back-end
BackendGet(key) ==
    IF cacheCfg = "memory" THEN MemoryCacheGet(cacheStore, cacheClosed, key, now)
    ELSE BboltGet(db, cacheClosed, key, now)

InitCache ==
    /\ items = <<>>
    /\ entry = <<>>
    /\ optsParallelism = 0
    /\ parallelism = 0
    /\ cacheCfg \in {"memory", "bbolt"}
    /\ cacheStore = [k \in CacheKeys |-> Absent]
    /\ cacheClosed = FALSE
    /\ cacheTTL = 0
    /\ now = 1
    /\ pc = "cache"
    /\ spawned = 0
    /\ qi = 1
    /\ jobs = <<>>
    /\ jobsClosed = FALSE
    /\ wg = 0
    /\ wpc = [w \in Workers |-> "idle"]
    /\ wjob = [w \in Workers |-> NoJob]
    /\ wlic = [w \in Workers |-> None]
    /\ ret = NoRet
    /\ trace = <<>>
    /\ \E d \in LegacyRecords \cup {NoData} :
           db = [k \in CacheKeys |-> IF k = "p1" /\ cacheCfg = "bbolt" THEN d ELSE NoData]
    /\ op = NoOp
    /\ written = [k \in CacheKeys |-> NoWrite]
    /\ docIn = PlainSPDX(<<>>)
    /\ prov = AnyProvider
    /\ firstRun = NoFirst
    /\ response = NoResponse
    /\ ctx = Background
    /\ mu = Unlocked
    /\ clients = NoClients
    /\ request = "sbom"

enrichVars == <<items, entry, optsParallelism, parallelism, cacheCfg, cacheTTL, pc,
                spawned, qi, jobs, jobsClosed, wg, wpc, wjob, wlic, ret, trace, docIn,
                prov, firstRun, request, response, ctx, mu, clients>>

\* Cache.Get(key)
CacheGet(key) ==
    /\ LET r == BackendGet(key) IN
         op' = [name |-> "Get", key |-> key, value |-> r.value, err |-> r.err]
    /\ UNCHANGED <<enrichVars, cacheStore, cacheClosed, db, now, written>>

\* Cache.SetWithTTL(key, value, ttl)
CacheSetWithTTL(key, value, ttl) ==
    /\ LET e == IF cacheClosed THEN ErrCacheClosed
                ELSE IF cacheCfg = "bbolt" THEN BboltPut(key) ELSE Nil IN
         /\ op' = [name |-> "SetWithTTL", key |-> key, value |-> value, err |-> e]
         /\ IF e # Nil THEN UNCHANGED <<cacheStore, db, written>>
            ELSE /\ written' = [written EXCEPT ![key] =
                        [value |-> value, ttl |-> ttl, at |-> now, reopened |-> FALSE]]
                 /\ IF cacheCfg = "memory"
                    THEN /\ cacheStore' = [cacheStore EXCEPT ![key] = NewEntry(value, ttl, now)]
                         /\ UNCHANGED db
                    ELSE /\ db' = [db EXCEPT ![key] =
                                JSONMarshalEntry(NewBboltEntry(value, ttl, now))]
                         /\ UNCHANGED cacheStore
    /\ UNCHANGED <<enrichVars, cacheClosed, now>>

\* Cache.Delete(key)
CacheDelete(key) ==
    /\ IF cacheClosed
       THEN /\ op' = [name |-> "Delete", key |-> key, value |-> "", err |-> ErrCacheClosed]
            /\ UNCHANGED <<cacheStore, db, written>>
       ELSE /\ op' = [name |-> "Delete", key |-> key, value |-> "", err |-> Nil]
            /\ written' = [written EXCEPT ![key] = NoWrite]
            /\ IF cacheCfg = "memory"
               THEN /\ cacheStore' = MemoryDelete(cacheStore, key)
                    /\ UNCHANGED db
               ELSE /\ db' = BboltDelete(db, key)
                    /\ UNCHANGED cacheStore
    /\ UNCHANGED <<enrichVars, cacheClosed, now>>

\* Cache.Close(): the map is dropped, the bbolt file stays on disk
Close ==
    /\ op' = [name |-> "Close", key |-> "", value |-> "", err |-> Nil]
    /\ IF cacheClosed THEN UNCHANGED <<cacheClosed, cacheStore, db>>
       ELSE /\ cacheClosed' = TRUE
            /\ IF cacheCfg = "memory"
               THEN /\ cacheStore' = [k \in CacheKeys |-> Absent]
                    /\ UNCHANGED db
               ELSE /\ db' = FileAfterClose(db)
                    /\ UNCHANGED cacheStore
    /\ UNCHANGED <<enrichVars, now, written>>

\* the same file opened again: NewBboltCache on the reopened database
Reopen ==
    /\ cacheCfg = "bbolt"
    /\ cacheClosed
    /\ cacheClosed' = FALSE
    /\ op' = [name |-> "NewBboltCache", key |-> "", value |-> "", err |-> Nil]
    /\ written' = [k \in CacheKeys |->
                     IF written[k].at # 0 THEN [written[k] EXCEPT !.reopened = TRUE]
                     ELSE written[k]]
    /\ UNCHANGED <<enrichVars, cacheStore, db, now>>

\* time passes between two cache operations
Advance ==
    /\ now < MaxTime
    /\ now' = now + 1
    /\ op' = NoOp
    /\ UNCHANGED <<enrichVars, cacheStore, cacheClosed, db, written>>

NextCache ==
    \/ \E k \in CacheKeys : CacheGet(k)
    \/ \E k \in CacheKeys, v \in CacheValues, ttl \in SetTTLs : CacheSetWithTTL(k, v, ttl)
    \/ \E k \in CacheKeys : CacheDelete(k)
    \/ Close
    \/ Reopen
    \/ Advance

SpecCache == InitCache /\ [][NextCache]_vars

(* ------- the cache API called concurrently: mu, closed, the store ------ *)
MaxCallers == 3
Callers == 1..MaxCallers
CacheOps == {"Get", "SetWithTTL", "Delete", "Close"}

\* a goroutine about to call the cache
Caller(name) == [op |-> name, pc |-> "idle", res |-> "none", touched |-> "none"]

\* c.mu.RLock() for Get on both backends and for BboltCache's SetWithTTL and
\* Delete; c.mu.Lock() for MemoryCache's SetWithTTL and Delete and for Close
LockKind(cfg, name) ==
    IF name = "Close" THEN "Lock"
    ELSE IF name = "Get" THEN "RLock"
    ELSE IF cfg = "memory" THEN "Lock" ELSE "RLock"

\* sync.RWMutex: a reader waits for the writer, a writer for everybody
CanRLockAlways(m) == TRUE
CanRLock(m) == m.writer = 0
CanLock(m) == m.writer = 0 /\ m.readers = {}

InitLock ==
    /\ items = <<>>
    /\ entry = <<>>
    /\ optsParallelism = 0
    /\ parallelism = 0
    /\ cacheCfg \in {"memory", "bbolt"}
    /\ cacheStore = [k \in CacheKeys |->
                        IF k = "p1" /\ cacheCfg = "memory"
                        THEN NewEntry("ISC", 0, 1) ELSE Absent]
    /\ cacheClosed = FALSE
    /\ cacheTTL = 0
    /\ now = 1
    /\ pc = "cache"
    /\ spawned = 0
    /\ qi = 1
    /\ jobs = <<>>
    /\ jobsClosed = FALSE
    /\ wg = 0
    /\ wpc = [w \in Workers |-> "idle"]
    /\ wjob = [w \in Workers |-> NoJob]
    /\ wlic = [w \in Workers |-> None]
    /\ ret = NoRet
    /\ trace = <<>>
    /\ db = [k \in CacheKeys |->
                IF k = "p1" /\ cacheCfg = "bbolt"
                THEN JSONMarshalEntry(NewBboltEntry("ISC", 0, 1)) ELSE NoData]
    /\ op = NoOp
    /\ written = [k \in CacheKeys |-> NoWrite]
    /\ docIn = PlainSPDX(<<>>)
    /\ prov = AnyProvider
    /\ firstRun = NoFirst
    /\ request = "sbom"
    /\ response = NoResponse
    /\ ctx = Background
    /\ mu = Unlocked
    /\ clients \in [Callers -> {Caller(name) : name \in CacheOps}]

lockFrame ==
    <<items, entry, optsParallelism, parallelism, cacheCfg, cacheTTL, now, pc, spawned, qi,
      jobs, jobsClosed, wg, wpc, wjob, wlic, ret, trace, op, written, docIn, prov, firstRun,
      request, response, ctx>>

\* c.mu.RLock() / c.mu.Lock() returns
Acquire(c) ==
    /\ clients[c].pc = "idle"
    /\ IF LockKind(cacheCfg, clients[c].op) = "RLock"
       THEN /\ CanRLock(mu)
            /\ mu' = [mu EXCEPT !.readers = @ \cup {c}]
       ELSE /\ CanLock(mu)
            /\ mu' = [mu EXCEPT !.writer = c]
    /\ clients' = [clients EXCEPT ![c].pc = "locked"]
    /\ UNCHANGED <<lockFrame, cacheStore, cacheClosed, db>>

\* `if c.closed { return ... }`
CheckClosed(c) ==
    /\ clients[c].pc = "locked"
    /\ clients' = [clients EXCEPT
                     ![c].pc = IF cacheClosed THEN "unlock" ELSE "store",
                     ![c].res = IF ~cacheClosed THEN @
                                ELSE IF clients[c].op = "Close" THEN Nil
                                ELSE ErrCacheClosed]
    /\ UNCHANGED <<lockFrame, mu, cacheStore, cacheClosed, db>>

\* the map access of MemoryCache, the db.View / db.Update of BboltCache
StoreAccess(c) ==
    /\ clients[c].pc = "store"
    /\ clients[c].op # "Close"
    /\ LET name == clients[c].op
           got == IF cacheCfg = "memory" THEN MemoryCacheGet(cacheStore, FALSE, "p1", now)
                  ELSE BboltGet(db, FALSE, "p1", now) IN
         /\ clients' = [clients EXCEPT
                          ![c].pc = "unlock",
                          ![c].res = IF name = "Get" THEN got.err ELSE Nil,
                          ![c].touched = IF cacheClosed THEN "closed" ELSE "open"]
         /\ IF name = "Get" THEN UNCHANGED <<cacheStore, db>>
            ELSE IF cacheCfg = "memory"
            THEN /\ cacheStore' = [cacheStore EXCEPT
                                     !["p1"] = IF name = "Delete" THEN Absent
                                               ELSE NewEntry("MIT", cacheTTL, now)]
                 /\ UNCHANGED db
            ELSE /\ db' = [db EXCEPT
                             !["p1"] = IF name = "Delete" THEN NoData
                                       ELSE JSONMarshalEntry(NewBboltEntry("MIT", cacheTTL, now))]
                 /\ UNCHANGED cacheStore
    /\ UNCHANGED <<lockFrame, mu, cacheClosed>>

\* Close: `c.closed = true`
MarkClosed(c) ==
    /\ clients[c].pc = "store"
    /\ clients[c].op = "Close"
    /\ cacheClosed' = TRUE
    /\ clients' = [clients EXCEPT ![c].pc = "clear"]
    /\ UNCHANGED <<lockFrame, mu, cacheStore, db>>

\* Close: `c.cache = nil` / `c.db.Close()`
ReleaseStore(c) ==
    /\ clients[c].pc = "clear"
    /\ IF cacheCfg = "memory"
       THEN /\ cacheStore' = [k \in CacheKeys |-> Absent]
            /\ UNCHANGED db
       ELSE /\ db' = FileAfterClose(db)
            /\ UNCHANGED cacheStore
    /\ clients' = [clients EXCEPT ![c].pc = "unlock", ![c].res = Nil]
    /\ UNCHANGED <<lockFrame, mu, cacheClosed>>

\* the deferred c.mu.RUnlock() / c.mu.Unlock()
Release(c) ==
    /\ clients[c].pc = "unlock"
    /\ mu' = [readers |-> mu.readers \ {c}, writer |-> IF mu.writer = c THEN 0 ELSE mu.writer]
    /\ clients' = [clients EXCEPT ![c].pc = "done"]
    /\ UNCHANGED <<lockFrame, cacheStore, cacheClosed, db>>

NextLock ==
    \E c \in Callers :
        \/ Acquire(c)
        \/ CheckClosed(c)
        \/ StoreAccess(c)
        \/ MarkClosed(c)
        \/ ReleaseStore(c)
        \/ Release(c)

SpecLock == InitLock /\ [][NextLock]_vars

(* ------------------- a request: detect, route, parse, enrich ----------- *)
\* the format members input documents carry
Headers ==
    {[spdxVersion |-> "SPDX-2.3", SPDXID |-> "SPDXRef-DOCUMENT",
      bomFormat |-> AbsentField, specVersion |-> AbsentField],
     [spdxVersion |-> AbsentField, SPDXID |-> "SPDXRef-DOCUMENT",
      bomFormat |-> AbsentField, specVersion |-> AbsentField],
     [spdxVersion |-> "SPDX-2.2", SPDXID |-> AbsentField,
      bomFormat |-> AbsentField, specVersion |-> AbsentField],
     [spdxVersion |-> NumberField, SPDXID |-> "SPDXRef-DOCUMENT",
      bomFormat |-> AbsentField, specVersion |-> AbsentField],
     [spdxVersion |-> "", SPDXID |-> "SPDXRef-DOCUMENT",
      bomFormat |-> AbsentField, specVersion |-> AbsentField],
     [spdxVersion |-> AbsentField, SPDXID |-> AbsentField,
      bomFormat |-> "CycloneDX", specVersion |-> "1.5"],
     [spdxVersion |-> AbsentField, SPDXID |-> AbsentField,
      bomFormat |-> "CycloneDX", specVersion |-> AbsentField],
     [spdxVersion |-> AbsentField, SPDXID |-> AbsentField,
      bomFormat |-> AbsentField, specVersion |-> AbsentField]}

\* the packages and components input documents list
DocPackages ==
    {Pkg("", spdxLicenseNoAssertion, <<PurlRef("p1")>>),
     Pkg("Apache-2.0", "", <<PurlRef("p1")>>)}
PackageLists == UNION {[1..n -> DocPackages] : n \in 0..MaxItems}
ComponentLists == UNION {[1..n -> Components] : n \in 0..MaxItems}

\* the objects that carry an SBOM: a header with a packages array, or a
\* CycloneDX header with a components array
Bodies ==
    {Obj(h.spdxVersion, h.SPDXID, h.bomFormat, h.specVersion, TRUE, ItemArray(ps), NoItems) :
        h \in {x \in Headers : x.bomFormat = AbsentField}, ps \in PackageLists}
    \cup
    {Obj(h.spdxVersion, h.SPDXID, h.bomFormat, h.specVersion, TRUE, NoItems, ItemArray(cs)) :
        h \in {x \in Headers : x.bomFormat # AbsentField}, cs \in ComponentLists}

\* input bytes: a body on its own, inside the {"sbom": {...}} envelope, or
\* beside an "sbom" member that is null or a string
InputDocs ==
    {JSONDoc("@absent", b, EmptyObj) : b \in Bodies}
    \cup {JSONDoc("@object", EmptyObj, b) : b \in Bodies}
    \cup {JSONDoc(k, b, EmptyObj) : k \in {"@null", "@string"}, b \in Bodies}

\* the body of a POST /enrich: bytes json.Decode rejects, an object without
\* an "sbom" member, or an object whose "sbom" member is the document
Requests == {"malformed", "no sbom", "sbom"}
NoDocument == JSONDoc("@absent", EmptyObj, EmptyObj)
ErrInvalidJSON == "invalid JSON"
ErrSbomRequired == "sbom field is required"

InitDoc ==
    /\ request \in Requests
    /\ docIn \in (IF request = "sbom" THEN InputDocs ELSE {NoDocument})
    /\ items = <<>>
    /\ entry = <<>>
    /\ optsParallelism \in {0, MaxPar}
    /\ parallelism = 0
    /\ cacheCfg \in {"nil", "memory"}
    /\ cacheStore = [k \in CacheKeys |-> Absent]
    /\ cacheClosed = FALSE
    /\ cacheTTL = IF cacheCfg = "nil" THEN 0 ELSE 1
    /\ now = 1
    /\ pc = "parse"
    /\ spawned = 0
    /\ qi = 1
    /\ jobs = <<>>
    /\ jobsClosed = FALSE
    /\ wg = 0
    /\ wpc = [w \in Workers |-> "idle"]
    /\ wjob = [w \in Workers |-> NoJob]
    /\ wlic = [w \in Workers |-> None]
    /\ ret = NoRet
    /\ trace = <<>>
    /\ db = [k \in CacheKeys |-> NoData]
    /\ op = NoOp
    /\ written = [k \in CacheKeys |-> NoWrite]
    /\ prov = AnyProvider
    /\ firstRun = NoFirst
    /\ response = NoResponse
    /\ ctx = Background
    /\ mu = Unlocked
    /\ clients = NoClients

\* which enricher the detected format selects
Route(format) ==
    IF HasPrefix(format, "SPDX") THEN "SPDX"
    ELSE IF HasPrefix(format, "CycloneDX") THEN "CycloneDX"
    ELSE "unsupported"

\* the status handleEnrich writes for what it ended with: 400 from its own
\* checks, 500 when the enricher's Enrich returned an error, 200 otherwise
ResponseStatus(r) ==
    IF r.err = Nil THEN 200
    ELSE IF r.err \in {ErrInvalidJSON, ErrSbomRequired, ErrUnknownFormat, ErrUnsupportedFormat}
         THEN 400
    ELSE 500

\* the request decoding, DetectFormat, the routing on the format tag, and the
\* selected enricher's Enrich up to its call of enrichDocument
ParseInput ==
    /\ pc = "parse"
    /\ LET f == DetectFormat(docIn)
           r == Route(f.format)
           parsed == IF r = "SPDX" THEN ParseSBOMFile(docIn) ELSE ParseCycloneDXFile(docIn)
           its == IF r = "SPDX" THEN parsed.doc.Packages ELSE parsed.doc.Components IN
         IF request # "sbom" \/ f.err # Nil \/ r = "unsupported" \/ parsed.err # Nil
         THEN /\ ret' = [kind |-> "error", doc |-> <<>>,
                         err |-> IF request = "malformed" THEN ErrInvalidJSON
                                 ELSE IF request = "no sbom" THEN ErrSbomRequired
                                 ELSE IF f.err # Nil THEN f.err
                                 ELSE IF r = "unsupported" THEN ErrUnsupportedFormat
                                 ELSE parsed.err]
              /\ pc' = "done"
              /\ UNCHANGED <<items, entry, trace>>
         ELSE /\ items' = its
              /\ entry' = its
              /\ trace' = [i \in 1..Len(its) |-> Trace0]
              /\ pc' = "start"
              /\ UNCHANGED ret
    /\ UNCHANGED <<optsParallelism, db, op, written, docIn, prov, firstRun, request,
                   response, ctx, mu, clients,
                   cacheVars, now, spawned, qi, parallelism, jobs, jobsClosed, wg, wpc,
                   wjob, wlic>>

NextDoc == ParseInput \/ Next

SpecDoc == InitDoc /\ [][NextDoc]_vars

(* ------------------- a run whose context is cancelled ------------------ *)
InitCancel ==
    /\ items \in Documents
    /\ entry = items
    /\ optsParallelism \in {1, MaxPar}
    /\ parallelism = 0
    /\ cacheCfg \in {"nil", "memory"}
    /\ \E e \in {Absent} \cup {[value |-> v, expiration |-> ZeroTime] : v \in CachedLicenses} :
           cacheStore = [p \in Purls |-> IF p = "p1" THEN e ELSE Absent]
    /\ cacheCfg = "nil" => cacheStore = [p \in Purls |-> Absent]
    /\ cacheClosed = FALSE
    /\ cacheTTL = 0
    /\ now = 1
    /\ pc = "start"
    /\ spawned = 0
    /\ qi = 1
    /\ jobs = <<>>
    /\ jobsClosed = FALSE
    /\ wg = 0
    /\ wpc = [w \in Workers |-> "idle"]
    /\ wjob = [w \in Workers |-> NoJob]
    /\ wlic = [w \in Workers |-> None]
    /\ ret = NoRet
    /\ trace = [i \in 1..Len(items) |-> Trace0]
    /\ db = [k \in CacheKeys |-> NoData]
    /\ op = NoOp
    /\ written = [k \in CacheKeys |-> NoWrite]
    /\ docIn = PlainSPDX(items)
    /\ prov = AnyProvider
    /\ firstRun = NoFirst
    /\ request = "sbom"
    /\ response = NoResponse
    /\ ctx = Background
    /\ mu = Unlocked
    /\ clients = NoClients

\* the run's timeout fires, or the caller cancels, while Enrich is running
Cancel ==
    /\ pc # "done"
    /\ ~ctx.done
    /\ ctx' = [done |-> TRUE, items |-> items, trace |-> trace]
    /\ UNCHANGED <<items, entry, optsParallelism, db, op, written, docIn, prov, firstRun,
                   request, response, mu, clients, cacheVars, now, mainVars, jobs,
                   jobsClosed, wg, wpc, wjob, wlic, trace>>

NextCancel ==
    \/ MainStep
    \/ \E w \in Workers : WorkerStep(w)
    \/ Cancel

SpecCancel == InitCancel /\ [][NextCancel]_vars

(* ------- Enrich called twice on one input, the cache left to itself ---- *)
\* providers that answer a purl the same way at every call
DeterministicProviders ==
    {[k \in CacheKeys |-> IF k = "p1" THEN {o}
                          ELSE IF k = "p2" THEN {[lic |-> "MIT", err |-> Nil]}
                          ELSE {[lic |-> "", err |-> ErrProvider]}] :
        o \in ProviderOutcomes}

\* Options.Parallelism, values below zero included
RequestedParallelism == ParallelismChoices \cup {-1}

InitTwice ==
    /\ items \in Documents
    /\ entry = items
    /\ optsParallelism \in RequestedParallelism
    /\ parallelism = 0
    /\ cacheCfg \in {"nil", "memory"}
    /\ \E e \in {Absent} \cup {[value |-> v, expiration |-> ZeroTime] : v \in CachedLicenses} :
           cacheStore = [p \in Purls |-> IF p = "p1" THEN e ELSE Absent]
    /\ cacheCfg = "nil" => cacheStore = [p \in Purls |-> Absent]
    /\ cacheClosed = FALSE
    /\ cacheTTL = IF cacheCfg = "nil" THEN 0 ELSE 1
    /\ now = 1
    /\ pc = "start"
    /\ spawned = 0
    /\ qi = 1
    /\ jobs = <<>>
    /\ jobsClosed = FALSE
    /\ wg = 0
    /\ wpc = [w \in Workers |-> "idle"]
    /\ wjob = [w \in Workers |-> NoJob]
    /\ wlic = [w \in Workers |-> None]
    /\ ret = NoRet
    /\ trace = [i \in 1..Len(items) |-> Trace0]
    /\ db = [k \in CacheKeys |-> NoData]
    /\ op = NoOp
    /\ written = [k \in CacheKeys |-> NoWrite]
    /\ docIn = PlainSPDX(items)
    /\ prov \in DeterministicProviders
    /\ firstRun = NoFirst
    /\ response = NoResponse
    /\ ctx = Background
    /\ mu = Unlocked
    /\ clients = NoClients
    /\ request = "sbom"

\* the first Enrich has returned; Enrich is called again with the same input
\* bytes, the same cache and provider, and a parallelism of the caller's choice
RunAgain ==
    /\ pc = "done"
    /\ firstRun = NoFirst
    /\ firstRun' = [ret |-> ret, parallelism |-> optsParallelism]
    /\ optsParallelism' \in {1, MaxPar}
    /\ items' = entry
    /\ parallelism' = 0
    /\ pc' = "start"
    /\ spawned' = 0
    /\ qi' = 1
    /\ jobs' = <<>>
    /\ jobsClosed' = FALSE
    /\ wg' = 0
    /\ wpc' = [w \in Workers |-> "idle"]
    /\ wjob' = [w \in Workers |-> NoJob]
    /\ wlic' = [w \in Workers |-> None]
    /\ ret' = NoRet
    /\ trace' = [i \in 1..Len(entry) |-> Trace0]
    /\ UNCHANGED <<entry, cacheVars, now, db, op, written, docIn, prov, request,
                   response, ctx, mu, clients>>

NextTwice ==
    \/ EnrichStart
    \/ SpawnWorker
    \/ QueueItem
    \/ CloseJobs
    \/ WaitAndMarshal
    \/ \E w \in Workers : WorkerRecv(w)
    \/ \E w \in Workers : WorkerExit(w)
    \/ \E w \in Workers : GetCacheRead(w)
    \/ \E w \in Workers : GetProviderCall(w)
    \/ \E w \in Workers : GetCacheWrite(w)
    \/ \E w \in Workers : WorkerApply(w)
    \/ RunAgain

SpecTwice == InitTwice /\ [][NextTwice]_vars

(* ------- single calls: DetectFormat, HasLicense, SetLicense, one item --- *)
\* the values a format member takes: missing, not a string, or a string
SpdxVersionFields == {AbsentField, NumberField, "SPDX-2.3", ""}
SpdxIDFields == {AbsentField, NumberField, "", "SPDXRef-DOCUMENT"}
BomFormatFields == {AbsentField, NumberField, "CycloneDX", "SPDX"}
SpecVersionFields == {AbsentField, NumberField, "1.5", ""}

\* objects with every combination of the four format members
MarkerObjects ==
    {Obj(v, id, b, sv, FALSE, NoItems, NoItems) :
        v \in SpdxVersionFields, id \in SpdxIDFields, b \in BomFormatFields,
        sv \in SpecVersionFields}

\* an envelope's own members, which carry other markers than its "sbom" member
EnvelopeObj == Obj("SPDX-2.2", AbsentField, AbsentField, AbsentField, FALSE, NoItems, NoItems)

\* the inputs of DetectFormat: an object on its own, inside an envelope, or
\* beside an "sbom" member that is null or a string
DetectInputs ==
    {JSONDoc("@absent", o, EmptyObj) : o \in MarkerObjects}
    \cup {JSONDoc("@object", EnvelopeObj, o) : o \in MarkerObjects}
    \cup {JSONDoc(k, o, EmptyObj) : k \in {"@null", "@string"}, o \in MarkerObjects}

\* packages with every combination of the two license fields
LicenseFields == {"", spdxLicenseNone, spdxLicenseNoAssertion, "Apache-2.0"}
UnitPackages == {Pkg(c, d, <<PurlRef("p1")>>) : c \in LicenseFields, d \in LicenseFields}

\* a license object with the given members
License(id, name, expression) ==
    [nil |-> FALSE, id |-> id, name |-> name, expression |-> expression]

\* components: without licenses, with choices that say nothing ({} and
\* {"license": {}}), with a choice that names a license in each of the four
\* ways, and with an empty purl
UnitComponents ==
    {Comp("p1", <<>>),
     Comp("", <<>>),
     Comp("", <<LicenseChoice("", NilLicense)>>),
     Comp("p1", <<LicenseChoice("", License("", "", "")), LicenseChoice("", NilLicense)>>),
     Comp("p1", <<LicenseChoice("GPL-2.0", NilLicense)>>),
     Comp("p2", <<LicenseChoice("", NilLicense), LicenseChoice("", License("ISC", "", ""))>>),
     Comp("p1", <<LicenseChoice("", License("", "ISC License", ""))>>),
     Comp("p1", <<LicenseChoice("", License("", "", "ISC OR MIT"))>>)}

UnitItems == UnitPackages \cup UnitComponents

\* a plain CycloneDX 1.5 document with the given components
PlainCycloneDX(comps) ==
    JSONDoc("@absent",
            Obj(AbsentField, AbsentField, "CycloneDX", "1.5", TRUE, NoItems,
                IF Len(comps) = 0 THEN NoItems ELSE ItemArray(comps)),
            EmptyObj)

\* the licenses SetLicense is called with
SetLicenseArgs == ProviderLicenses \cup CachedLicenses

InitUnit ==
    /\ pc \in {"detect", "lookup", "item", "start"}
    /\ response \in (IF pc = "lookup" THEN Responses ELSE {NoResponse})
    /\ IF pc \in {"detect", "lookup"}
       THEN /\ docIn \in (IF pc = "detect" THEN DetectInputs ELSE {NoDocument})
            /\ items = <<>>
            /\ optsParallelism = 1
            /\ cacheCfg = "nil"
            /\ cacheStore = [k \in CacheKeys |-> Absent]
       ELSE /\ \E x \in UnitItems :
                  /\ items = <<x>>
                  /\ docIn = IF IsComponent(x) THEN PlainCycloneDX(<<x>>) ELSE PlainSPDX(<<x>>)
            /\ IF pc = "item"
               THEN /\ optsParallelism = 1
                    /\ cacheCfg = "nil"
                    /\ cacheStore = [k \in CacheKeys |-> Absent]
               ELSE /\ optsParallelism \in ParallelismChoices
                    /\ cacheCfg \in {"nil", "memory"}
                    /\ \E e \in {Absent} \cup {[value |-> v, expiration |-> ZeroTime] :
                                                  v \in CachedLicenses} :
                           cacheStore = [k \in CacheKeys |-> e]
                    /\ cacheCfg = "nil" => cacheStore = [k \in CacheKeys |-> Absent]
    /\ entry = items
    /\ parallelism = 0
    /\ cacheClosed = FALSE
    /\ cacheTTL = IF cacheCfg = "nil" THEN 0 ELSE 1
    /\ now = 1
    /\ spawned = 0
    /\ qi = 1
    /\ jobs = <<>>
    /\ jobsClosed = FALSE
    /\ wg = 0
    /\ wpc = [w \in Workers |-> "idle"]
    /\ wjob = [w \in Workers |-> NoJob]
    /\ wlic = [w \in Workers |-> None]
    /\ ret = NoRet
    /\ trace = [i \in 1..Len(items) |-> Trace0]
    /\ db = [k \in CacheKeys |-> NoData]
    /\ op = NoOp
    /\ written = [k \in CacheKeys |-> NoWrite]
    /\ prov = AnyProvider
    /\ firstRun = NoFirst
    /\ ctx = Background
    /\ mu = Unlocked
    /\ clients = NoClients
    /\ request = "sbom"

\* what every single call leaves alone
unitFrame ==
    <<entry, optsParallelism, db, written, docIn, prov, firstRun, request, response, ctx,
      mu, clients, cacheVars, now,
      spawned, qi, ret, parallelism, jobs, jobsClosed, wg, wpc, wjob, wlic, trace>>

\* format, err := DetectFormat(data)
CallDetectFormat ==
    /\ pc = "detect"
    /\ LET f == DetectFormat(docIn) IN
         op' = [name |-> "DetectFormat", key |-> "", value |-> f.format, err |-> f.err]
    /\ pc' = "called"
    /\ UNCHANGED <<items, unitFrame>>

\* item.HasLicense()
CallHasLicense ==
    /\ pc = "item"
    /\ op' = [name |-> "HasLicense", key |-> "",
              value |-> IF ItemHasLicense(items[1]) THEN "true" ELSE "false", err |-> Nil]
    /\ pc' = "called"
    /\ UNCHANGED <<items, unitFrame>>

\* item.SetLicense(license)
CallSetLicense(license) ==
    /\ pc = "item"
    /\ items' = [items EXCEPT ![1] = ItemSetLicense(@, license)]
    /\ op' = [name |-> "SetLicense", key |-> "", value |-> license, err |-> Nil]
    /\ pc' = "called"
    /\ UNCHANGED unitFrame

\* license, err := client.Get(ctx, purl)
CallClientGet ==
    /\ pc = "lookup"
    /\ LET r == ClientGet(response) IN
         op' = [name |-> "Client.Get", key |-> "p1", value |-> r.lic, err |-> r.err]
    /\ pc' = "called"
    /\ UNCHANGED <<items, unitFrame>>

NextUnit ==
    \/ CallDetectFormat
    \/ CallClientGet
    \/ CallHasLicense
    \/ \E license \in SetLicenseArgs : CallSetLicense(license)
    \/ Next

SpecUnit == InitUnit /\ [][NextUnit]_vars

\* the bytes a successful Enrich returned
OutputBytes ==
    IF ret.kind = "opts.SBOM" THEN docIn
    ELSE IF Route(DetectFormat(docIn).format) = "SPDX"
         THEN MarshalDocument(ParseSBOMFile(docIn).doc, ret.doc)
         ELSE MarshalBOM(ParseCycloneDXFile(docIn).doc, ret.doc)

(* ======================= properties of one Enrich run ================== *)
ItemIds == DOMAIN entry

\* the specification's "meaningful" license, stated on the fields themselves
MeaningfulField(f) == f \notin {"", "NONE", "NOASSERTION"}
LicensedAtEntry(i) ==
    MeaningfulField(entry[i].licenseConcluded) \/ MeaningfulField(entry[i].licenseDeclared)
HasPurlRef(i) == \E k \in DOMAIN entry[i].externalRefs : entry[i].externalRefs[k].referenceType = "purl"
Ended == pc = "done"
LookupSucceeded(i) == trace[i].lookupRet.err = Nil /\ trace[i].lookupRet.lic # ""
InFlight == {i \in ItemIds : trace[i].dequeued > trace[i].finished}

\* C1: an item that has a license when Enrich is called keeps exactly its
\* license fields, in the document and in the returned output, and neither a
\* cache read nor a provider call is made for it.
NonDestructiveEnrichment ==
    \A i \in ItemIds :
        LicensedAtEntry(i) =>
            /\ items[i] = entry[i]
            /\ trace[i].cacheReads = 0
            /\ trace[i].provCalls = 0
            /\ trace[i].setCalls = 0
            /\ ret.kind = "marshalled" => ret.doc[i] = entry[i]

\* C1 witness: the run ended, a worker took a licensed item off the queue, and
\* another item of the same document was enriched.
LicensedItemWentThroughWorker ==
    /\ Ended
    /\ \E i, j \in ItemIds :
         /\ LicensedAtEntry(i) /\ trace[i].finished = 1
         /\ trace[j].setCalls = 1

\* C2: Enrich returns success whatever failed per item, every unlicensed item
\* with a purl had its lookup, and each one whose lookup returned a license
\* carries that license in the output.
PerItemFailuresNeverFailBatch ==
    Ended =>
        /\ ret.err = Nil
        /\ \A i \in ItemIds :
             (~LicensedAtEntry(i) /\ HasPurlRef(i)) =>
                 /\ trace[i].lookupRet # None
                 /\ LookupSucceeded(i) =>
                        ret.doc[i].licenseConcluded = trace[i].lookupRet.lic

\* C2 witness: the run ended with one item's failure logged and another item
\* enriched.
FailureBesideSuccess ==
    /\ Ended
    /\ \E i, j \in ItemIds :
         /\ trace[i].logged > 0 /\ trace[i].lookupRet.err \notin {Nil, "none"}
         /\ trace[j].setCalls = 1 /\ ret.doc[j].licenseConcluded = "MIT"

\* C3: an item is received at most once and held by at most one worker; an
\* item without a purl is never received; when the run has ended every item
\* with a purl was received and processed exactly once.
ExactlyOnceDispatch ==
    \A i \in ItemIds :
        /\ trace[i].dequeued <= 1
        /\ trace[i].finished <= trace[i].dequeued
        /\ Cardinality({w \in Workers : wjob[w].item = i}) <= 1
        /\ ~HasPurlRef(i) => trace[i].dequeued = 0
        /\ (Ended /\ HasPurlRef(i)) => (trace[i].dequeued = 1 /\ trace[i].finished = 1)

\* C3 witness: a run of two workers over two items with purls has ended, each
\* item processed once.
TwoItemsTwoWorkersDispatched ==
    /\ Ended /\ spawned = 2 /\ Len(entry) = 2
    /\ \A i \in ItemIds : HasPurlRef(i) /\ trace[i].finished = 1

\* C4: the number of items whose processing has started and not finished
\* never exceeds the normalised worker count.
BoundedConcurrency ==
    Cardinality(InFlight) <= (IF optsParallelism <= 0 THEN 1 ELSE optsParallelism)

\* C4 witness: every worker is busy while a job still waits in the queue.
AllWorkersBusyJobWaiting ==
    /\ parallelism = 1
    /\ Cardinality(InFlight) = 1
    /\ jobs # <<>>

\* C5: once the document is marshalled every worker has exited, the document
\* no longer changes, and the output holds every license SetLicense wrote.
CompletionBarrier ==
    ret.kind = "marshalled" =>
        /\ \A w \in Workers : wpc[w] \in {"idle", "exited"}
        /\ InFlight = {}
        /\ ret.doc = items
        /\ \A i \in ItemIds :
             trace[i].setCalls > 0 => ret.doc[i].licenseConcluded = trace[i].lookupRet.lic

\* C5 witness: the output of a two-worker run contains a license written by
\* SetLicense.
MarshalledAfterWrites ==
    /\ ret.kind = "marshalled" /\ spawned = 2
    /\ \E i \in ItemIds : trace[i].setCalls = 1 /\ ret.doc[i] # entry[i]

\* C6: SetLicense is called at most once for any item.
AtMostOneWrite == \A i \in ItemIds : trace[i].setCalls <= 1

\* C6 witness: two workers each wrote the license of one of two items that
\* share a purl.
SharedPurlBothWritten ==
    /\ spawned = 2 /\ Len(entry) = 2
    /\ GetPurl(entry[1]) = GetPurl(entry[2])
    /\ \A i \in ItemIds : trace[i].setCalls = 1

\* C7: when an item's cache read finds a non-empty, unexpired value v, the
\* provider is not called for the item, and the item has license v once it is
\* processed and in the output.
CacheHitShortCircuitsProvider ==
    \A i \in ItemIds :
        (trace[i].readRes.err = Nil /\ trace[i].readRes.lic # "") =>
            /\ trace[i].provCalls = 0
            /\ trace[i].finished = 1 => items[i].licenseConcluded = trace[i].readRes.lic
            /\ Ended => ret.doc[i].licenseConcluded = trace[i].readRes.lic

\* C7 witness: the run ended with an item enriched from the cache.
ItemEnrichedFromCache ==
    /\ Ended
    /\ \E i \in ItemIds :
         /\ trace[i].readRes = [lic |-> "ISC", err |-> Nil]
         /\ ret.doc[i].licenseConcluded = "ISC"

\* C8: a lookup that missed the cache and returned has called the provider
\* exactly once, and a lookup that returns a provider's license with a cache
\* configured has written (purl, license, configured TTL) to the cache first.
CacheThroughWriteOrdering ==
    \A i \in ItemIds :
        /\ trace[i].provCalls <= 1
        /\ (trace[i].readRes.err = ErrCacheMiss /\ trace[i].lookupRet # None) =>
               trace[i].provCalls = 1
        /\ (LookupSucceeded(i) /\ trace[i].provCalls = 1 /\ cacheCfg # "nil") =>
               /\ Len(trace[i].writes) = 1
               /\ trace[i].writes[1].key = GetPurl(entry[i]).purl
               /\ trace[i].writes[1].value = trace[i].lookupRet.lic
               /\ trace[i].writes[1].ttl = cacheTTL
               /\ trace[i].writes[1].entry =
                      [value |-> trace[i].lookupRet.lic,
                       expiration |-> IF cacheTTL > 0
                                      THEN trace[i].writes[1].at + cacheTTL ELSE 0]

\* C8 witness: a lookup has written the provider's license with a positive
\* TTL and is about to hand the license to its worker.
LookupReturnsAfterWrite ==
    \E w \in Workers :
        /\ wpc[w] = "ret" /\ wlic[w] = [lic |-> "MIT", err |-> Nil]
        /\ cacheTTL > 0
        /\ Len(trace[wjob[w].item].writes) = 1

\* C9: a cache read for purl p made after a lookup for p returned a license,
\* on a cache that is open and whose entry for p has not expired, finds the
\* value, and the provider is not called.
CacheMonotonicWithinRun ==
    \A i \in ItemIds :
        (/\ trace[i].cacheReads = 1
         /\ trace[i].sawSuccess
         /\ trace[i].readRes.err # ErrCacheClosed
         /\ ~trace[i].readExpired) =>
            /\ trace[i].readRes.err = Nil
            /\ trace[i].readRes.lic # ""
            /\ trace[i].provCalls = 0

\* C9 witness: a lookup hit the value that an earlier lookup of the same run
\* had fetched from the provider and cached.
SecondLookupHitsFirstLookupsWrite ==
    \E i, j \in ItemIds :
        /\ i # j
        /\ Len(trace[i].writes) = 1
        /\ trace[j].sawSuccess
        /\ trace[j].readRes = [lic |-> "MIT", err |-> Nil]

\* C10: when the provider returns the empty license without error, the lookup
\* writes nothing to the cache, SetLicense is not called and the item is
\* unchanged; the cache never holds an empty value.
EmptyResultDoesNotPoisonCache ==
    /\ \A i \in ItemIds :
         trace[i].provRes = [lic |-> "", err |-> Nil] =>
             /\ trace[i].writes = <<>>
             /\ trace[i].setCalls = 0
             /\ items[i] = entry[i]
    /\ \A p \in Purls : cacheStore[p] # Absent => cacheStore[p].value # ""

\* C10 witness: an item whose provider call returned the empty license has
\* been processed, with a cache configured and open.
EmptyResultProcessed ==
    \E i \in ItemIds :
        /\ trace[i].provRes = [lic |-> "", err |-> Nil]
        /\ trace[i].finished = 1
        /\ cacheCfg = "memory" /\ ~cacheClosed

\* C11: a cache read that fails with anything but a miss ends the lookup with
\* that error and without a provider call; the provider is called, with a
\* cache configured, only after a miss.
CacheReadFailureSkipsProvider ==
    \A i \in ItemIds :
        /\ trace[i].readRes.err \notin {Nil, ErrCacheMiss, "none"} =>
               /\ trace[i].provCalls = 0
               /\ trace[i].lookupRet = [lic |-> "", err |-> trace[i].readRes.err]
        /\ (trace[i].provCalls > 0 /\ cacheCfg # "nil") =>
               trace[i].readRes.err = ErrCacheMiss

\* C11 witness: an item's lookup read the closed cache and the item was
\* processed, left as it was, with the failure logged.
ClosedCacheReadProcessed ==
    \E i \in ItemIds :
        /\ trace[i].readRes.err = ErrCacheClosed
        /\ trace[i].finished = 1 /\ trace[i].logged = 1
        /\ items[i] = entry[i]

\* the provider returned a license and the cache write that followed failed
WriteFailed(i) ==
    /\ trace[i].provRes.err = Nil /\ trace[i].provRes.lic \notin {"", "none"}
    /\ trace[i].writeErr # Nil

\* C12 as claimed: after a failed cache write the lookup surfaces the write
\* error and the current call still obtains the provider's license.
WriteFailureKeepsCurrentValue ==
    \A i \in ItemIds :
        WriteFailed(i) =>
            /\ trace[i].lookupRet.err = trace[i].writeErr
            /\ trace[i].lookupRet.lic = trace[i].provRes.lic

\* C12 amended: after a failed cache write the lookup returns the write error
\* with the empty license, so the value is lost for the current call too: the
\* worker logs the error and the item is not enriched.
WriteFailureLosesCurrentValue ==
    \A i \in ItemIds :
        WriteFailed(i) =>
            /\ trace[i].lookupRet = [lic |-> "", err |-> trace[i].writeErr]
            /\ trace[i].writes = <<>>
            /\ trace[i].setCalls = 0
            /\ items[i] = entry[i]
            /\ trace[i].finished = 1 => trace[i].logged = 1
            /\ Ended => ret.doc[i] = entry[i]

\* C12 witness: the run ended with an item whose cache write failed after the
\* provider had returned a license.
WriteFailedItemEnded ==
    /\ Ended
    /\ \E i \in ItemIds : WriteFailed(i) /\ trace[i].provRes.lic = "MIT"

\* a Get that ran on an open cache for a key with a write on record
GetAfterWrite ==
    /\ op.name = "Get"
    /\ op.err # ErrCacheClosed
    /\ written[op.key].at # 0

\* what Get must return for the write h when read at time t
Expected(h, t) ==
    IF h.ttl <= 0 \/ t - h.at <= h.ttl
    THEN [value |-> h.value, err |-> Nil]
    ELSE [value |-> "", err |-> ErrCacheMiss]

\* C13: on both back-ends a Get on an open cache answers from the most recent
\* SetWithTTL of the key that took effect and was not followed by a Delete: its
\* value while ttl <= 0 or the elapsed time is at most ttl, a miss once the
\* elapsed time exceeds ttl; an overwrite replaces value and expiry.
TTLSemantics ==
    GetAfterWrite =>
        [value |-> op.value, err |-> op.err] = Expected(written[op.key], now)

\* C13 witness: on the durable back-end a Get missed an entry whose TTL had
\* run out.
ExpiredEntryMissed ==
    /\ GetAfterWrite
    /\ cacheCfg = "bbolt"
    /\ written[op.key].ttl > 0
    /\ now - written[op.key].at > written[op.key].ttl
    /\ op.err = ErrCacheMiss

\* C14: once a cache is closed, Get, SetWithTTL and Delete return
\* ErrCacheClosed for every key, a further Close returns nil, and none of them
\* changes what the cache holds.
CloseLifecycle ==
    [][cacheClosed =>
          /\ op'.name \in {"Get", "SetWithTTL", "Delete"} =>
                 /\ op'.err = ErrCacheClosed
                 /\ op'.name = "Get" => op'.value = ""
          /\ op'.name = "Close" => op'.err = Nil /\ cacheClosed'
          /\ cacheClosed' => UNCHANGED <<cacheStore, db>>]_vars

\* C14 witness: a Get on a closed cache that had taken a write returned
\* ErrCacheClosed.
GetOnClosedCache ==
    /\ cacheClosed
    /\ op.name = "Get" /\ op.err = ErrCacheClosed
    /\ \E k \in CacheKeys : written[k].at # 0

\* C15: on an open cache Delete(k) returns nil whether or not k is present,
\* Get(k) is a miss afterwards, a second Delete(k) changes nothing, and the
\* entries under all other keys are as they were.
DeleteIdempotentLocal ==
    [][(op'.name = "Delete" /\ ~cacheClosed) =>
          /\ op'.err = Nil
          /\ MemoryCacheGet(cacheStore', cacheClosed', op'.key, now').err = ErrCacheMiss
          /\ BboltGet(db', cacheClosed', op'.key, now').err = ErrCacheMiss
          /\ MemoryDelete(cacheStore', op'.key) = cacheStore'
          /\ BboltDelete(db', op'.key) = db'
          /\ \A k \in CacheKeys \ {op'.key} :
                 cacheStore'[k] = cacheStore[k] /\ db'[k] = db[k]]_vars

\* C15 witness: a Delete succeeded while another key held an entry.
DeletedBesideOtherEntry ==
    /\ op.name = "Delete" /\ op.err = Nil
    /\ \E k \in CacheKeys \ {op.key} : written[k].at # 0 /\ BackendGet(k).err = Nil

\* C16: an entry written to the durable back-end is in the file after Close
\* and reopening with its value and its absolute expiry, and Get then returns
\* the value exactly while the entry has not expired relative to the time of
\* the write plus ttl.
DurablePersistence ==
    /\ \A k \in CacheKeys :
           written[k].reopened =>
               db[k] = JSONMarshalEntry(
                   [value |-> written[k].value,
                    expiration |-> IF written[k].ttl > 0
                                   THEN written[k].at + written[k].ttl ELSE ZeroTime])
    /\ (GetAfterWrite /\ written[op.key].reopened) =>
           /\ op.err = Nil <=>
                  (written[op.key].ttl <= 0
                      \/ now <= written[op.key].at + written[op.key].ttl)
           /\ op.err = Nil => op.value = written[op.key].value
           /\ op.err # Nil => op.err = ErrCacheMiss

\* C16 witness: after Close and reopening, a Get returned the value of an
\* entry written with a positive TTL before the Close.
ReopenedEntryRead ==
    /\ GetAfterWrite
    /\ written[op.key].reopened
    /\ written[op.key].ttl > 0
    /\ op.err = Nil /\ op.value = written[op.key].value

\* a Get that ran on the open durable cache for a key holding a raw record
GetOfLegacyRecord ==
    /\ op.name = "Get"
    /\ op.err # ErrCacheClosed
    /\ db[op.key] \in LegacyRecords

\* every record SetWithTTL has written is in the structured form
WritesAreStructured ==
    \A k \in CacheKeys :
        (cacheCfg = "bbolt" /\ written[k].at # 0) => db[k].text = EntryJSON

\* C17 as claimed: Get of any raw record is a hit with exactly the raw bytes
\* at every time, and records written by SetWithTTL are structured.
LegacyRecordsReadRaw ==
    /\ GetOfLegacyRecord => (op.err = Nil /\ op.value = db[op.key].text)
    /\ WritesAreStructured

\* C17 amended: Get of a raw record that does not parse as the structured
\* form is a hit with exactly the raw bytes at every time; a raw record that
\* does parse (the literal null) is read as a structured entry, a hit with the
\* empty value; records written by SetWithTTL are structured.
UnparseableLegacyRecordsReadRaw ==
    /\ GetOfLegacyRecord =>
           /\ op.err = Nil
           /\ db[op.key].text # "null" => op.value = db[op.key].text
           /\ db[op.key].text = "null" => op.value = ""
    /\ WritesAreStructured

\* C17 witness: a raw record was read back as its raw bytes after time had
\* passed.
LegacyRecordReadLater ==
    /\ GetOfLegacyRecord
    /\ now > 1
    /\ db[op.key].text = "MIT" /\ op.value = "MIT"

\* Enrich has returned without an error
Succeeded == pc = "done" /\ ret.err = Nil

\* the object the format members are read from
FormatObject(d) == IF d.sbom = "@object" THEN d.inner ELSE d.top

\* C18: when the parsed document has no items (no packages, no components),
\* Enrich returns exactly the input bytes, starts no worker, and makes no cache
\* or provider call.
EmptyDocumentFastPath ==
    (pc # "parse" /\ ret.kind # "error" /\ Len(entry) = 0) =>
        /\ spawned = 0
        /\ \A w \in Workers : wpc[w] = "idle" /\ wlic[w] = None
        /\ cacheStore = [k \in CacheKeys |-> Absent]
        /\ ~cacheClosed
        /\ pc = "done" =>
               /\ ret = [kind |-> "opts.SBOM", doc |-> <<>>, err |-> Nil]
               /\ OutputBytes = docIn

\* C18 witness: a CycloneDX document without components was returned with a
\* cache configured.
EmptyCycloneDXReturned ==
    /\ Succeeded
    /\ cacheCfg = "memory"
    /\ docIn.sbom = "@absent"
    /\ docIn.top.bomFormat = "CycloneDX"
    /\ docIn.top.components.items = <<>>

\* an SPDX document inside the {"sbom": {...}} envelope
EnvelopedSPDX == docIn.sbom = "@object" /\ Route(DetectFormat(docIn).format) = "SPDX"

\* the output is the document the envelope held, with the items as enriched
OutputIsUnwrapped ==
    /\ OutputBytes.sbom = "@absent"
    /\ OutputBytes.inner = EmptyObj
    /\ OutputBytes.top.spdxVersion = Field(docIn.inner.spdxVersion)
    /\ OutputBytes.top.SPDXID = Field(docIn.inner.SPDXID)
    /\ OutputBytes.top.packages = ItemArray(items)

\* C19 as claimed: the successful output for an enveloped SPDX document has
\* no enclosing sbom member, whatever number of packages the document has.
EnvelopeAlwaysDropped ==
    (Succeeded /\ EnvelopedSPDX) => OutputIsUnwrapped

\* C19 amended: the successful output for an enveloped SPDX document with at
\* least one package is the unwrapped document; with no packages it is the
\* input bytes, envelope included.
EnvelopeDroppedWhenPackages ==
    (Succeeded /\ EnvelopedSPDX) =>
        IF Len(docIn.inner.packages.items) > 0
        THEN OutputIsUnwrapped
        ELSE OutputBytes = docIn

\* C19 witness: an enveloped SPDX document with two packages was enriched.
EnvelopedDocumentEnriched ==
    /\ Succeeded
    /\ EnvelopedSPDX
    /\ Len(items) = 2
    /\ items # entry

\* C20 as claimed: the output of a successful Enrich carries the same
\* spdxVersion, bomFormat and specVersion members as the input, absent ones
\* staying absent, and DetectFormat gives it the same format tag.
FormatIdentityPreserved ==
    Succeeded =>
        /\ DetectFormat(OutputBytes) = DetectFormat(docIn)
        /\ FormatObject(OutputBytes).spdxVersion = FormatObject(docIn).spdxVersion
        /\ FormatObject(OutputBytes).bomFormat = FormatObject(docIn).bomFormat
        /\ FormatObject(OutputBytes).specVersion = FormatObject(docIn).specVersion

\* C21 as claimed: for a document with at least one item, every member of the
\* input that the engine does not write is in the output with the same value:
\* the document-level members, the member no struct declares among them, and
\* the items' members other than the license fields.
DocumentIdentity ==
    (Succeeded /\ Len(entry) > 0) =>
        /\ FormatObject(OutputBytes).extra = FormatObject(docIn).extra
        /\ IsString(FormatObject(docIn).SPDXID) =>
               FormatObject(OutputBytes).SPDXID = FormatObject(docIn).SPDXID
        /\ \A i \in ItemIds : ItemGetPurl(ret.doc[i]) = ItemGetPurl(entry[i])

\* C22: with a provider that answers each purl the same way every time and a
\* cache nobody else touches, a second Enrich on the same input returns what
\* the first returned, whatever the parallelism of either run and however the
\* workers interleave.
Repeatability ==
    (firstRun # NoFirst /\ Ended) => ret = firstRun.ret

\* C22 witness: the second run ended after enriching an item, with two
\* workers where the first run had one.
SecondRunEnriched ==
    /\ firstRun # NoFirst /\ Ended
    /\ firstRun.parallelism = 1 /\ optsParallelism = MaxPar
    /\ Len(items) = MaxItems
    /\ \E i \in ItemIds : items[i] # entry[i]

MissingPurlSkip ==
    /\ \A i \in ItemIds :
           ~HasPurlRef(i) =>
               /\ trace[i].dequeued = 0
               /\ trace[i].cacheReads = 0
               /\ trace[i].provCalls = 0
               /\ trace[i].setCalls = 0
               /\ \A w \in Workers : wjob[w].item # i
               /\ \A k \in DOMAIN jobs : jobs[k].item # i
               /\ items[i] = entry[i]
    /\ Ended =>
           \A i \in ItemIds :
               HasPurlRef(i) => trace[i].dequeued = 1

\* C27 witness: the run ended with the first package skipped for want of a
\* purl and the package after it enriched.
SkippedThenEnriched ==
    /\ Ended
    /\ Len(entry) = MaxItems
    /\ ~HasPurlRef(1) /\ trace[1].purlErrs = 1
    /\ HasPurlRef(MaxItems) /\ items[MaxItems] # entry[MaxItems]

\* C30 as claimed: POST /enrich answers 400 for every document-level failure:
\* a request body that is not JSON, a missing sbom member, a document with no
\* detectable format, a format tag that is neither SPDX nor CycloneDX, and a
\* detected document that fails to parse in its view.
DaemonErrorMapping ==
    (Ended /\ ret.err # Nil) => ResponseStatus(ret) = 400

\* what a single call returned
Called(name) == pc = "called" /\ op.name = name
\* the item of a single-item run is an SPDX package / a CycloneDX component
PackageAtEntry(i) == "licenseConcluded" \in DOMAIN entry[i]
ComponentAtEntry(i) == "licenses" \in DOMAIN entry[i]
\* provider.Get calls made for an item: each starts with the cache read, or
\* with the provider call when there is no cache
Lookups(i) == IF cacheCfg = "nil" THEN trace[i].provCalls ELSE trace[i].cacheReads

\* C23: DetectFormat reads the markers from the "sbom" member only when that
\* member is an object, else from the top level; a string spdxVersion is
\* returned as it is; else a non-empty string SPDXID gives SPDX-2.3; else
\* bomFormat "CycloneDX" gives CycloneDX-<specVersion> for a string
\* specVersion and CycloneDX-1.4 otherwise; else the input is rejected.
FormatDetectionCascade ==
    Called("DetectFormat") =>
        LET o == FormatObject(docIn)
            spdxID == IsString(o.SPDXID) /\ o.SPDXID # "" IN
          CASE IsString(o.spdxVersion) ->
                   op.err = Nil /\ op.value = o.spdxVersion
            [] ~IsString(o.spdxVersion) /\ spdxID ->
                   op.err = Nil /\ op.value = "SPDX-2.3"
            [] ~IsString(o.spdxVersion) /\ ~spdxID /\ o.bomFormat = "CycloneDX" ->
                   /\ op.err = Nil
                   /\ op.value = IF o.specVersion = "1.5" THEN "CycloneDX-1.5"
                                 ELSE IF o.specVersion = "" THEN "CycloneDX-"
                                 ELSE "CycloneDX-1.4"
            [] OTHER -> op.err = ErrUnknownFormat /\ op.value = ""

\* C23 witness: an enveloped object with both an SPDXID and CycloneDX
\* markers, and a spdxVersion that is not a string, was detected as SPDX-2.3.
SPDXFallbackBeatsCycloneDX ==
    /\ Called("DetectFormat")
    /\ docIn.sbom = "@object"
    /\ docIn.inner.spdxVersion = NumberField
    /\ docIn.inner.SPDXID = "SPDXRef-DOCUMENT"
    /\ docIn.inner.bomFormat = "CycloneDX"
    /\ op.value = "SPDX-2.3"

\* C24: HasLicense of a package is true exactly when licenseConcluded or
\* licenseDeclared is meaningful, and a package with no meaningful field is
\* looked up by the run while one with a meaningful field is not.
SPDXHasLicenseDefinition ==
    /\ (Called("HasLicense") /\ PackageAtEntry(1)) =>
           (op.value = "true" <=> LicensedAtEntry(1))
    /\ \A i \in ItemIds :
           PackageAtEntry(i) =>
               /\ LicensedAtEntry(i) => Lookups(i) = 0
               /\ (Ended /\ ~LicensedAtEntry(i)) => Lookups(i) = 1

\* C24 witness: a package with licenseConcluded NONE and licenseDeclared
\* NOASSERTION was looked up by a finished run.
SentinelPackageLookedUp ==
    /\ Ended
    /\ Len(entry) = 1 /\ PackageAtEntry(1)
    /\ entry[1].licenseConcluded = "NONE" /\ entry[1].licenseDeclared = "NOASSERTION"
    /\ Lookups(1) = 1

\* C25: SetLicense(L) on a package sets licenseConcluded to L, sets
\* licenseDeclared to L when it was empty, NONE or NOASSERTION and leaves it as
\* it was otherwise; nothing else of the package changes.
SPDXSetLicenseDefinition ==
    (Called("SetLicense") /\ PackageAtEntry(1)) =>
        /\ items[1].licenseConcluded = op.value
        /\ items[1].licenseDeclared =
               IF MeaningfulField(entry[1].licenseDeclared)
               THEN entry[1].licenseDeclared ELSE op.value
        /\ items[1].externalRefs = entry[1].externalRefs

\* C25 witness: SetLicense was called on a package whose licenseDeclared was
\* meaningful, and on return the two fields differ.
SetLicenseKeptDeclared ==
    /\ Called("SetLicense") /\ PackageAtEntry(1)
    /\ entry[1].licenseDeclared = "Apache-2.0"
    /\ items[1].licenseDeclared = "Apache-2.0"
    /\ items[1].licenseConcluded = op.value
    /\ op.value # "Apache-2.0"

\* no license choice of the component says anything
NoChoiceSaysAnything(c) ==
    \A n \in DOMAIN c.licenses :
        /\ c.licenses[n].expression = ""
        /\ c.licenses[n].license.nil \/
               (c.licenses[n].license.id = "" /\ c.licenses[n].license.name = ""
                    /\ c.licenses[n].license.expression = "")
\* after is before with the one choice {expression: L} added at the end
OneChoiceAppended(before, after, L) ==
    /\ Len(after.licenses) = Len(before.licenses) + 1
    /\ \A n \in DOMAIN before.licenses : after.licenses[n] = before.licenses[n]
    /\ after.licenses[Len(after.licenses)].expression = L
    /\ after.licenses[Len(after.licenses)].license.nil
    /\ after.purl = before.purl

\* C26: a component none of whose license choices says anything, enriched
\* with L, keeps its choices in place and order and gets exactly one choice
\* {expression: L} after them, in a licenses array that is created when the
\* component had none; this holds for SetLicense and for the run's output.
CycloneDXAppendSemantics ==
    /\ (Called("SetLicense") /\ ComponentAtEntry(1) /\ NoChoiceSaysAnything(entry[1])) =>
           OneChoiceAppended(entry[1], items[1], op.value)
    /\ \A i \in ItemIds :
           (Succeeded /\ ComponentAtEntry(i) /\ NoChoiceSaysAnything(entry[i])
                /\ LookupSucceeded(i)) =>
               /\ OneChoiceAppended(entry[i], ret.doc[i], trace[i].lookupRet.lic)
               /\ OutputBytes.top.components = ItemArray(ret.doc)

\* C26 witness: a run returned a component that had two choices saying
\* nothing with a third choice after them.
AppendedAfterEmptyChoices ==
    /\ Succeeded
    /\ Len(entry) = 1 /\ ComponentAtEntry(1)
    /\ Len(entry[1].licenses) = 2 /\ NoChoiceSaysAnything(entry[1])
    /\ Len(ret.doc[1].licenses) = 3
    /\ ret.doc[1].licenses[3].expression = "MIT"

\* C28: a component without a license and with an empty purl is not skipped:
\* a worker takes it, provider.Get is called for it exactly once, with "" as
\* the purl, and when that call returns an error the component is returned as
\* it was and Enrich succeeds.
EmptyPurlIsLookedUp ==
    \A i \in ItemIds :
        (ComponentAtEntry(i) /\ entry[i].purl = "" /\ NoChoiceSaysAnything(entry[i])) =>
            /\ trace[i].purlErrs = 0
            /\ \A w \in Workers : wjob[w].item = i => wjob[w].purl = ""
            /\ \A k \in DOMAIN jobs : jobs[k].item = i => jobs[k].purl = ""
            /\ \A n \in DOMAIN trace[i].writes : trace[i].writes[n].key = ""
            /\ Lookups(i) <= 1
            /\ Ended =>
                   /\ trace[i].dequeued = 1
                   /\ Lookups(i) = 1
                   /\ ret.err = Nil
                   /\ trace[i].lookupRet.err # Nil =>
                          ret.doc[i] = entry[i] /\ trace[i].setCalls = 0

\* C28 witness: the lookup for a component with an empty purl and no licenses
\* failed in the provider, and the run ended without error.
EmptyPurlLookupFailed ==
    /\ Succeeded
    /\ Len(entry) = 1 /\ ComponentAtEntry(1)
    /\ entry[1].purl = "" /\ entry[1].licenses = <<>>
    /\ trace[1].provCalls = 1
    /\ trace[1].lookupRet.err # Nil
    /\ ret.doc[1].licenses = <<>>

\* the service answered 200 with a body that decodes
Decoded200 == response.status = 200 /\ response.decodable

\* C31 as claimed: Client.Get returns NotFound exactly when the service
\* answers 404, or 200 with an empty array, or 200 with results whose license
\* lists are all empty; every other decodable 200 succeeds with the first
\* license of the first result.
ProviderResultClassification ==
    Called("Client.Get") =>
        LET allEmpty == \A n \in DOMAIN response.results : response.results[n] = <<>> IN
          /\ op.err = ErrLicenseNotFound <=>
                 (response.status = 404 \/ (Decoded200 /\ allEmpty))
          /\ (Decoded200 /\ ~allEmpty) =>
                 /\ op.err = Nil
                 /\ Len(response.results[1]) > 0
                 /\ op.value = response.results[1][1]

\* C31 amended: NotFound exactly when the service answers 404, or 200 with an
\* empty array, or 200 with a first result whose license list is empty,
\* whatever the later results list; every other decodable 200 succeeds with
\* the first license of the first result.
ProviderFirstResultClassification ==
    Called("Client.Get") =>
        LET firstEmpty == Len(response.results) = 0 \/ response.results[1] = <<>> IN
          /\ op.err = ErrLicenseNotFound <=>
                 (response.status = 404 \/ (Decoded200 /\ firstEmpty))
          /\ (Decoded200 /\ ~firstEmpty) =>
                 op.err = Nil /\ op.value = Head(Head(response.results))

\* C31 witness: the service answered 200 with a first result without
\* licenses and a second one with a license, and Client.Get returned NotFound.
NotFoundDespiteLaterLicense ==
    /\ Called("Client.Get")
    /\ Decoded200
    /\ Len(response.results) = 2
    /\ response.results[1] = <<>> /\ response.results[2] = <<"MIT">>
    /\ op.err = ErrLicenseNotFound

\* the producer is at an item with a purl: it is about to send on the channel
AboutToSend ==
    pc = "queue" /\ qi <= Len(items) /\ ItemGetPurl(items[qi]).err = Nil

\* C32: Enrich returns in every fair execution; the producer's send never
\* finds the channel full (its capacity is the number of items), the channel
\* is closed only after the last item was looked at, after which nothing is
\* sent, and when Enrich returns every worker that was started has seen the
\* closed, empty channel and exited.
EnrichTerminates ==
    /\ [](AboutToSend => Len(jobs) < Len(items))
    /\ [](jobsClosed => (qi > Len(items) /\ pc \in {"wait", "done"}))
    /\ []((Ended /\ Len(entry) > 0) =>
             /\ jobs = <<>> /\ jobsClosed
             /\ \A w \in Workers : (w <= spawned) => wpc[w] = "exited")
    /\ <>Ended

\* C32 witness: a run over the largest document with the most workers has
\* returned, all its workers gone.
AllWorkersExitedAtReturn ==
    /\ Ended
    /\ Len(entry) = MaxItems
    /\ spawned = MaxPar
    /\ \A w \in 1..MaxPar : wpc[w] = "exited"
    /\ \A i \in ItemIds : trace[i].dequeued = 1

\* the item was still in the document's list or on the channel, taken by no
\* worker, when the context was cancelled
TakenAfterCancel(i) == ctx.done /\ ctx.trace[i].dequeued = 0 /\ trace[i].dequeued = 1
\* SetLicense had been called on the item when the context was cancelled
SetBeforeCancel(i) == ctx.done /\ ctx.trace[i].setCalls = 1

CancellationStopsThePool ==
    \A i \in ItemIds :
        (TakenAfterCancel(i) /\ ~LicensedAtEntry(i)) =>
            /\ trace[i].cacheReads = 0
            /\ trace[i].provCalls = 0
            /\ trace[i].setCalls = 0

\* C34 amended: the workers keep draining the channel after the cancellation.
\* For an unlicensed item taken afterwards the lookup is started as for any
\* other; a provider call made for it fails with the context's error and
\* leaves the item as it was, and SetLicense is called on it only with a
\* license read from the cache. Every item with a purl has been taken by a
\* worker when Enrich returns.
CancellationStopsProviderCalls ==
    /\ \A i \in ItemIds :
           (TakenAfterCancel(i) /\ ~LicensedAtEntry(i)) =>
               /\ trace[i].finished = 1 => Lookups(i) = 1
               /\ trace[i].provCalls = 1 =>
                      /\ trace[i].provRes.err = ErrCanceled
                      /\ items[i] = entry[i]
               /\ trace[i].setCalls = 1 =>
                      /\ trace[i].readRes.err = Nil
                      /\ trace[i].provCalls = 0
                      /\ items[i] = ItemSetLicense(entry[i], trace[i].readRes.lic)
    /\ (Ended /\ ctx.done) => \A i \in ItemIds : HasPurlRef(i) => trace[i].dequeued = 1

\* C34 witness: an item that was taken from the channel after the
\* cancellation got its license from the cache.
EnrichedFromCacheAfterCancel ==
    \E i \in ItemIds :
        /\ TakenAfterCancel(i)
        /\ trace[i].setCalls = 1
        /\ items[i] # entry[i]
        /\ ctx.items[i] = entry[i]

\* two different items with the same purl, for both of which the cache read
\* missed and the provider was called
DuplicateLookup(i, j) ==
    /\ i # j
    /\ ItemGetPurl(entry[i]).err = Nil
    /\ ItemGetPurl(entry[i]) = ItemGetPurl(entry[j])
    /\ trace[i].cacheReads = 1 /\ trace[i].readRes.err = ErrCacheMiss
    /\ trace[j].cacheReads = 1 /\ trace[j].readRes.err = ErrCacheMiss
    /\ trace[i].provCalls = 1 /\ trace[j].provCalls = 1

\* C35: when two workers have both missed the cache for the same purl and
\* both called the provider, the provider answered both the same way, the two
\* cache writes store the same value under that purl, and when the run ends
\* both items carry that value (or both are as they were, when the provider
\* had no license for the purl).
DuplicateLookupsAreBenign ==
    \A i, j \in ItemIds :
        DuplicateLookup(i, j) =>
            /\ trace[i].provRes = trace[j].provRes
            /\ \A n \in DOMAIN trace[i].writes, m \in DOMAIN trace[j].writes :
                   /\ trace[i].writes[n].key = trace[j].writes[m].key
                   /\ trace[i].writes[n].value = trace[j].writes[m].value
                   /\ trace[i].writes[n].value = trace[i].provRes.lic
            /\ Ended =>
                   /\ Len(trace[i].writes) = Len(trace[j].writes)
                   /\ IF trace[i].provRes.err = Nil /\ trace[i].provRes.lic # ""
                      THEN /\ Len(trace[i].writes) = 1
                           /\ items[i].licenseConcluded = trace[i].provRes.lic
                           /\ items[j].licenseConcluded = trace[i].provRes.lic
                           /\ cacheStore[ItemGetPurl(entry[i]).purl].value = trace[i].provRes.lic
                      ELSE items[i] = entry[i] /\ items[j] = entry[j]

\* C35 witness: in a run with two workers both items, which share a purl
\* that was not cached, missed the cache, the provider was called for each,
\* both calls' results were written to the cache and both items got the
\* license.
ProviderCalledTwiceForOnePurl ==
    /\ Ended /\ firstRun = NoFirst
    /\ Len(entry) = 2 /\ parallelism >= 2
    /\ DuplicateLookup(1, 2)
    /\ Len(trace[1].writes) = 1 /\ Len(trace[2].writes) = 1
    /\ items[1].licenseConcluded = "MIT" /\ items[2].licenseConcluded = "MIT"

\* the spawn loop of a run over at least one item, requested with a
\* parallelism of at least 1, is over
SpawnLoopOver == optsParallelism >= 1 /\ Len(entry) >= 1 /\ pc \in {"queue", "wait", "done"}
Min(a, b) == IF a <= b THEN a ELSE b
\* the goroutines that were started as workers
Started == {w \in Workers : wpc[w] # "idle"}

\* C36 as claimed: a run over n >= 1 items with requested parallelism p >= 1
\* starts min(p, n) workers.
WorkerCountIsMin ==
    SpawnLoopOver => Cardinality(Started) = Min(optsParallelism, Len(entry))

\* C36 amended: such a run starts p workers, however few the items; the
\* items taken from the channel are at most n, so with p > n some worker takes
\* none, and every worker has exited when Enrich returns.
WorkerCountIsParallelism ==
    SpawnLoopOver =>
        /\ Cardinality(Started) = optsParallelism
        /\ spawned = optsParallelism
        /\ Ended => \A w \in Started : wpc[w] = "exited"

\* C36 witness: a run over one item with the largest parallelism has
\* returned; more workers were started than there were items.
MoreWorkersThanItems ==
    /\ SpawnLoopOver /\ Ended
    /\ Len(entry) = 1 /\ optsParallelism = MaxPar
    /\ Cardinality(Started) = MaxPar
    /\ trace[1].dequeued = 1

\* a single worker, a cache that is open, and entries written without expiry
SequentialWithCache ==
    parallelism = 1 /\ cacheCfg = "memory" /\ ~cacheClosed /\ cacheTTL <= 0
\* the provider returned a license for the item
ProviderGaveLicense(i) ==
    trace[i].provCalls = 1 /\ trace[i].provRes.err = Nil /\ trace[i].provRes.lic # ""

\* C37: with a single worker, an open cache and a TTL that never expires,
\* once the provider has returned a license for a purl it is not called again
\* for that purl: of the items sharing the purl, which the worker takes in
\* document order, at most one has a provider call that returned a license,
\* and no later one has a provider call at all.
SequentialAtMostOnce ==
    SequentialWithCache =>
        \A i, j \in ItemIds :
            (i < j /\ ItemGetPurl(entry[i]) = ItemGetPurl(entry[j])) =>
                /\ ProviderGaveLicense(i) => trace[j].provCalls = 0
                /\ ~(ProviderGaveLicense(i) /\ ProviderGaveLicense(j))

\* C37 witness: of two unlicensed items with the same uncached purl the
\* first was answered by the provider and the second by the cache.
SecondItemServedFromCache ==
    /\ SequentialWithCache /\ Ended
    /\ Len(entry) >= 2
    /\ ItemGetPurl(entry[1]) = ItemGetPurl(entry[2])
    /\ ProviderGaveLicense(1)
    /\ trace[2].cacheReads = 1 /\ trace[2].readRes.err = Nil
    /\ trace[2].provCalls = 0
    /\ items[2].licenseConcluded = trace[1].provRes.lic

\* the caller is between its lock and its unlock
InCriticalSection(c) == clients[c].pc \in {"locked", "store", "clear", "unlock"}
\* a Close that found the cache open has set closed (and may have gone on)
CloseTookEffect ==
    \E c \in DOMAIN clients : clients[c].op = "Close" /\ clients[c].pc \in {"clear", "unlock", "done"}
                                  /\ cacheClosed

\* C38: on both backends, while a Close is between its lock and its unlock no
\* other operation is; an operation reaches the store only while the cache
\* is open, and an operation that has returned either touched the open store
\* and did not return CacheClosed, or returned CacheClosed without touching
\* the store.
CloseExcludesOperations ==
    \A c \in DOMAIN clients :
        /\ (clients[c].op = "Close" /\ InCriticalSection(c)) =>
               \A d \in DOMAIN clients : (d # c) => ~InCriticalSection(d)
        /\ clients[c].op # "Close" =>
               /\ clients[c].pc = "store" => ~cacheClosed
               /\ clients[c].touched # "closed"
               /\ clients[c].pc \in {"unlock", "done"} =>
                      \/ clients[c].touched = "open" /\ clients[c].res # ErrCacheClosed
                      \/ clients[c].touched = "none" /\ clients[c].res = ErrCacheClosed
               /\ clients[c].res = ErrCacheClosed => CloseTookEffect

\* C38 witness: of three concurrent calls, a write completed on the open
\* store, then Close completed, then a Get returned CacheClosed.
WriteThenCloseThenClosedGet ==
    \E a, b, c \in DOMAIN clients :
        /\ clients[a].op = "SetWithTTL" /\ clients[a].pc = "done"
        /\ clients[a].touched = "open" /\ clients[a].res = Nil
        /\ clients[b].op = "Close" /\ clients[b].pc = "done"
        /\ clients[c].op = "Get" /\ clients[c].pc = "done"
        /\ clients[c].res = ErrCacheClosed /\ clients[c].touched = "none"

\* the request carried a document, and detection, routing and parsing are over
Parsed == request = "sbom" /\ pc # "parse"

\* C39 as claimed: for every input the detector classifies as SPDX, the SPDX
\* view parses the object the detector inspected: the items of the run are
\* that object's packages, and the parse fails only for what that object holds.
DetectorAndViewAgree ==
    (Parsed /\ Route(DetectFormat(docIn).format) = "SPDX") =>
        LET o == FormatObject(docIn) IN
          IF ret.err = ErrParse
          THEN o.spdxVersion = NumberField \/ o.SPDXID = NumberField
          ELSE entry = o.packages.items

\* C40 as claimed: a CycloneDX document inside a one-level sbom envelope is
\* enriched as the same document without the envelope: the items of the run
\* are the enveloped document's components, and with at least one component
\* the output is the marshalled, enriched document.
EnvelopedCycloneDXEnriched ==
    (Parsed /\ docIn.sbom = "@object" /\ Route(DetectFormat(docIn).format) = "CycloneDX"
         /\ ret.err # ErrParse) =>
        /\ entry = docIn.inner.components.items
        /\ (Succeeded /\ Len(docIn.inner.components.items) > 0) => ret.kind = "marshalled"

====
